---- MODULE Spec2Model ----
(***************************************************************************)
(* Model of the material-manager core: the wide-to-long reshaping of       *)
(* InventoryTransformer (src/src/data/transformer.py) and the outer-join   *)
(* deficit computation of DeficitAnalyzer                                  *)
(* (src/src/analysis/deficit_analyzer.py).                                 *)
(*                                                                         *)
(* Conventions of the model                                                *)
(*  - a Python str is a tuple of one-character strings, so that the        *)
(*    regular expressions and the lexicographic sort of the code can be    *)
(*    computed character by character;                                     *)
(*  - a cell of a DataFrame is a record [t, n, s]: t = "null" (None/NaN),  *)
(*    t = "num" (the number n) or t = "str" (the string s);                *)
(*  - a DataFrame is the sequence of its rows, in row order.               *)
(***************************************************************************)
EXTENDS Integers, Sequences, FiniteSets, TLC

(***************************************************************************)
(* Bounds of the explored inputs.                                          *)
(***************************************************************************)
\* largest number of non-null store cells of a wide table
MaxFilled == 2
\* largest number of records of a long table handed directly to the analyzer
MaxLong == 2

(***************************************************************************)
(* Cells and strings.                                                      *)
(***************************************************************************)
NaN == [t |-> "null", n |-> 0, s |-> <<>>]
Num(k) == [t |-> "num", n |-> k, s |-> <<>>]
Str(chars) == [t |-> "str", n |-> 0, s |-> chars]

\* code point of a character (Python compares str by code point)
Ord(c) ==
  CASE c = "\n" -> 10
    [] c = " " -> 32
    [] c = "-" -> 45
    [] c = "0" -> 48
    [] c = "1" -> 49
    [] c = "2" -> 50
    [] c = "3" -> 51
    [] c = "4" -> 52
    [] c = "5" -> 53
    [] c = "6" -> 54
    [] c = "7" -> 55
    [] c = "8" -> 56
    [] c = "9" -> 57
    [] c = "A" -> 65
    [] c = "B" -> 66
    [] c = "C" -> 67
    [] c = "N" -> 78
    [] c = "U" -> 85
    [] c = "X" -> 88
    [] c = "a" -> 97
    [] c = "b" -> 98
    [] c = "u" -> 117
    [] c = "x" -> 120

IsDigit(c) == Ord(c) >= 48 /\ Ord(c) <= 57

RECURSIVE DigitsValue(_)
DigitsValue(s) ==
  IF s = <<>> THEN 0
  ELSE 10 * DigitsValue(SubSeq(s, 1, Len(s) - 1)) + (Ord(s[Len(s)]) - 48)

AllDigits(s) == s # <<>> /\ \A i \in 1..Len(s) : IsDigit(s[i])

(***************************************************************************)
(* The three regular expressions of the transformer, with the semantics of *)
(* Python's re: "." matches any character but a line break, and "$"        *)
(* matches at the end of the string and also just before a line break that *)
(* is the last character of the string.                                    *)
(***************************************************************************)
\* whether "$" matches right after position i of s
DollarAfter(s, i) == i = Len(s) \/ (i + 1 = Len(s) /\ s[Len(s)] = "\n")

\* the position where re.search finds -[UC]$ in s, 0 when it finds none
SuffixStart(s) ==
  LET hits == {i \in 1..(Len(s) - 1) :
                 /\ s[i] = "-"
                 /\ s[i + 1] \in {"U", "C"}
                 /\ DollarAfter(s, i + 1)}
  IN IF hits = {} THEN 0 ELSE CHOOSE i \in hits : \A j \in hits : i <= j

\* Series.str.match(r'.*-[UC]$', na=False) on one value (re.match: anchored at
\* the start, ".*" cannot cross a line break)
str_match(s) ==
  /\ SuffixStart(s) # 0
  /\ \A j \in 1..(SuffixStart(s) - 1) : s[j] # "\n"

\* Series.str.replace(r'-[UC]$', '', regex=True) on one value
str_replace(s) ==
  LET i == SuffixStart(s)
  IN IF i = 0 THEN s ELSE SubSeq(s, 1, i - 1) \o SubSeq(s, i + 2, Len(s))

\* Series.str.extract(r'-([UC])$')[0] on one value ("nan" when nothing matches)
str_extract(s) ==
  LET i == SuffixStart(s) IN IF i = 0 THEN "nan" ELSE s[i + 1]

\* str.endswith(('-U', '-C')): the name ends with the two characters -U or -C
EndsWithKind(name) ==
  /\ Len(name) >= 2
  /\ name[Len(name) - 1] = "-"
  /\ name[Len(name)] \in {"U", "C"}

(***************************************************************************)
(* pd.to_numeric(..., errors='coerce') on one cell: a number stays, a      *)
(* string of digits with an optional minus sign is parsed, anything else   *)
(* (a blank or a non-numeric string, None) becomes NaN.                    *)
(***************************************************************************)
to_numeric(v) ==
  IF v.t = "num" THEN v
  ELSE IF v.t = "null" THEN NaN
  ELSE IF AllDigits(v.s) THEN Num(DigitsValue(v.s))
  ELSE IF v.s # <<>> /\ v.s[1] = "-" /\ AllDigits(Tail(v.s))
       THEN Num(0 - DigitsValue(Tail(v.s)))
  ELSE NaN

(***************************************************************************)
(* Wide tables: [columns, rows]; column 1 is the nomenclature column and   *)
(* every row has one cell per column.                                      *)
(***************************************************************************)
empty(df) == Len(df.columns) = 0 \/ Len(df.rows) = 0

\* pd.melt(df_wide, id_vars=[first column], var_name='magasin_code',
\* value_name='quantite'): column by column, and row by row inside a column
RECURSIVE MeltColumn(_, _, _)
MeltColumn(df, j, i) ==
  IF i > Len(df.rows) THEN <<>>
  ELSE << [nomenclature |-> df.rows[i][1].s,
           magasin_code |-> df.columns[j],
           quantite |-> df.rows[i][j]] >> \o MeltColumn(df, j, i + 1)

RECURSIVE MeltFrom(_, _)
MeltFrom(df, j) ==
  IF j > Len(df.columns) THEN <<>>
  ELSE MeltColumn(df, j, 1) \o MeltFrom(df, j + 1)

melt(df) == MeltFrom(df, 2)

\* a filter that lets zero quantities through
keep_non_negative(q) == q.n >= 0

\* the filter of line 104 on one parsed quantity
KeepQuantity(q) == q.n > 0

\* InventoryTransformer._clean_data
clean_data(df) ==
  LET notNull == SelectSeq(df, LAMBDA r : r.quantite.t # "null")
      notEmpty == SelectSeq(notNull, LAMBDA r : r.quantite # Str(<<>>))
      validCode == SelectSeq(notEmpty, LAMBDA r : str_match(r.magasin_code))
      numeric == [k \in 1..Len(validCode) |->
                    [validCode[k] EXCEPT !.quantite = to_numeric(@)]]
      parsed == SelectSeq(numeric, LAMBDA r : r.quantite.t # "null")
  IN SelectSeq(parsed, LAMBDA r : KeepQuantity(r.quantite))

\* InventoryTransformer._extract_magasin_info, followed by the renaming and
\* the column selection of transform_to_long (lines 63-67)
extract_magasin_info(df) ==
  [k \in 1..Len(df) |->
     [nomenclature |-> df[k].nomenclature,
      magasin |-> str_replace(df[k].magasin_code),
      magasin_code |-> df[k].magasin_code,
      type_donnee |-> str_extract(df[k].magasin_code),
      quantite |-> df[k].quantite.n]]

\* the body of the try block of transform_to_long (lines 44-69)
reshape(df) == extract_magasin_info(clean_data(melt(df)))

RECURSIVE Flatten(_)
Flatten(rows) == IF rows = <<>> THEN <<>> ELSE Head(rows) \o Flatten(Tail(rows))

\* values.tobytes() of a frame that has a str column: the array has dtype
\* object and its bytes are the addresses of the cell objects.  A str and an
\* int of CPython's small-int cache (-5..256) are objects the frame shares
\* with every table built from the same values, so the address stands for the
\* value.  Any other number (a float, NaN, a larger int) is boxed in a new
\* object each time .values is taken: its bytes are the address the
\* allocator gave during this call, box.
IsSmallInt(v) == v.t = "num" /\ 0 - 5 <= v.n /\ v.n <= 256

tobytes(cells, box) ==
  [k \in 1..Len(cells) |->
     IF cells[k].t = "str" \/ IsSmallInt(cells[k]) THEN cells[k]
     ELSE [t |-> "box", n |-> box, s |-> <<>>]]

\* cache_key of transform_to_long (line 39): the cells in row-major order;
\* neither the column names nor the shape enter it
transform_cache_key(df, box) == tobytes(Flatten(df.rows), box)

\* dict assignment d[k] = v
Put(d, k, v) == [x \in DOMAIN d \cup {k} |-> IF x = k THEN v ELSE d[x]]

\* a column label that is not a str: the int d of the default RangeIndex of
\* a frame built without a header
IntLabel(d) == <<"int", d>>

is_str(label) == label = <<>> \/ label[1] # "int"

\* whether .str of line 97 raises AttributeError ("Can only use .str accessor
\* with string values"): the melted labels are all ints
str_accessor_raises(df) ==
  /\ Len(df.columns) >= 2
  /\ \A j \in 2..Len(df.columns) : ~is_str(df.columns[j])

\* a handler that lets the exception through
except_reraise(e) == e

\* the handler of lines 77-78: whatever was raised inside the try block
\* leaves as a DataTransformationError
except_transformation(e) == "DataTransformationError"

\* The frames of one call: "df_wide" is the caller's frame; pd.melt (line
\* 50), dropna and the boolean indexing (lines 93, 94, 97, 103, 104) each
\* return a new frame, named here by the line that makes it.
\* A column assignment that reaches the caller's frame
clean_assign_caller == "df_wide"

\* the frame line 100 assigns the column 'quantite' into: df of _clean_data,
\* bound by line 97 to the frame its boolean indexing made
clean_assign_target == "line_97"

\* the frame lines 123 and 126 assign 'magasin' and 'type_donnee' into: the
\* argument of _extract_magasin_info, the frame line 104 made
extract_assign_target == "line_104"

\* the column assignments of one call, in order
InPlaceWrites ==
  << [frame |-> clean_assign_target,
      column |-> <<"q", "u", "a", "n", "t", "i", "t", "e">>],
     [frame |-> extract_assign_target,
      column |-> <<"m", "a", "g", "a", "s", "i", "n">>],
     [frame |-> extract_assign_target,
      column |-> <<"t", "y", "p", "e", "_", "d", "o", "n", "n", "e", "e">>] >>

\* the caller's frame after the try block ran: it holds the columns that
\* were assigned into it
after_try(df) ==
  LET mine == SelectSeq(InPlaceWrites, LAMBDA w : w.frame = "df_wide")
  IN [columns |-> df.columns \o [k \in 1..Len(mine) |-> mine[k].column],
      rows |-> [i \in 1..Len(df.rows) |->
                  df.rows[i] \o [k \in 1..Len(mine) |-> NaN]]]

\* a cache write whatever use_cache is
always_writes(use_cache) == TRUE

\* the guard of the cache write: if use_cache (transformer.py line 72,
\* deficit_analyzer.py line 74)
writes_cache(use_cache) == use_cache

\* value_name of the melt of lines 50-55
value_name == <<"q", "u", "a", "n", "t", "i", "t", "e">>

\* pd.melt refuses, with ValueError, a frame that has a column named as its
\* value_name
melt_raises(df) == \E k \in DOMAIN df.columns : df.columns[k] = value_name

\* InventoryTransformer.transform_to_long(df_wide, use_cache) on a
\* transformer whose _cache is cache: the exception raised ("" when it
\* returns), the frame returned, the cache and the caller's frame afterwards
transform_to_long(cache, df, use_cache, box) ==
  IF empty(df)
  THEN [exc |-> "DataTransformationError", ret |-> <<>>, cache |-> cache,
        arg |-> df]
  ELSE LET cache_key == transform_cache_key(df, box)
       IN IF use_cache /\ cache_key \in DOMAIN cache
          THEN [exc |-> "", ret |-> cache[cache_key], cache |-> cache, arg |-> df]
          ELSE IF melt_raises(df)
          THEN [exc |-> except_transformation("ValueError"), ret |-> <<>>,
                cache |-> cache, arg |-> df]
          ELSE IF str_accessor_raises(df)
          THEN [exc |-> except_transformation("AttributeError"), ret |-> <<>>,
                cache |-> cache, arg |-> df]
          ELSE LET long == reshape(df)
               IN [exc |-> "", ret |-> long,
                   cache |-> IF writes_cache(use_cache)
                             THEN Put(cache, cache_key, long) ELSE cache,
                   arg |-> after_try(df)]

(***************************************************************************)
(* Long tables: sequences of records [nomenclature, magasin, magasin_code, *)
(* type_donnee, quantite].  Deficit tables: sequences of records [magasin, *)
(* nomenclature, quantite_exploitation, quantite_stock, deficit].          *)
(***************************************************************************)
\* Python's order on str: lexicographic by code point, a proper prefix first
RECURSIVE StrLess(_, _)
StrLess(a, b) ==
  IF b = <<>> THEN FALSE
  ELSE IF a = <<>> THEN TRUE
  ELSE IF Ord(a[1]) # Ord(b[1]) THEN Ord(a[1]) < Ord(b[1])
  ELSE StrLess(Tail(a), Tail(b))

\* the order of sort_values(['magasin', 'nomenclature'])
KeyLess(r1, r2) ==
  \/ StrLess(r1.magasin, r2.magasin)
  \/ r1.magasin = r2.magasin /\ StrLess(r1.nomenclature, r2.nomenclature)

SameKey(r1, r2) == r1.magasin = r2.magasin /\ r1.nomenclature = r2.nomenclature

\* stable insertion of a row into a sorted table (after its equals)
RECURSIVE InsertSorted(_, _)
InsertSorted(sorted, r) ==
  IF sorted = <<>> THEN <<r>>
  ELSE IF KeyLess(r, Head(sorted)) THEN <<r>> \o sorted
  ELSE <<Head(sorted)>> \o InsertSorted(Tail(sorted), r)

RECURSIVE SortFrom(_, _, _)
SortFrom(df, k, acc) ==
  IF k > Len(df) THEN acc ELSE SortFrom(df, k + 1, InsertSorted(acc, df[k]))

\* DataFrame.sort_values(['magasin', 'nomenclature']).reset_index(drop=True)
sort_values(df) == SortFrom(df, 1, <<>>)

\* the joined rows of one exploitation record: one per stock record of the
\* same (magasin, nomenclature), or one with a missing stock side
JoinLeft(l, stock_df) ==
  LET matches == SelectSeq(stock_df, LAMBDA r : SameKey(l, r))
  IN IF matches = <<>>
     THEN << [magasin |-> l.magasin, nomenclature |-> l.nomenclature,
              quantite_exploitation |-> Num(l.quantite),
              quantite_stock |-> NaN] >>
     ELSE [k \in 1..Len(matches) |->
             [magasin |-> l.magasin, nomenclature |-> l.nomenclature,
              quantite_exploitation |-> Num(l.quantite),
              quantite_stock |-> Num(matches[k].quantite)]]

RECURSIVE JoinAllLeft(_, _, _)
JoinAllLeft(exploitation_df, stock_df, k) ==
  IF k > Len(exploitation_df) THEN <<>>
  ELSE JoinLeft(exploitation_df[k], stock_df)
         \o JoinAllLeft(exploitation_df, stock_df, k + 1)

\* the stock records no exploitation record matches, with a missing
\* exploitation side
RightOnly(exploitation_df, stock_df) ==
  LET alone == SelectSeq(stock_df, LAMBDA r :
                 \A k \in 1..Len(exploitation_df) : ~SameKey(exploitation_df[k], r))
  IN [k \in 1..Len(alone) |->
        [magasin |-> alone[k].magasin, nomenclature |-> alone[k].nomenclature,
         quantite_exploitation |-> NaN,
         quantite_stock |-> Num(alone[k].quantite)]]

\* a join that keeps only the exploitation side's keys (how='left')
left_merge(exploitation_df, stock_df) == JoinAllLeft(exploitation_df, stock_df, 1)

\* exploitation_df.merge(stock_df, on=['magasin', 'nomenclature'],
\* suffixes=('_exploitation', '_stock'), how='outer'), restricted to the
\* columns that line 112 keeps
outer_merge(exploitation_df, stock_df) ==
  JoinAllLeft(exploitation_df, stock_df, 1) \o RightOnly(exploitation_df, stock_df)

\* Series.fillna(0) on one value
fillna(v) == IF v.t = "null" THEN 0 ELSE v.n

\* the opposite sign convention
deficit_inverted(quantite_exploitation, quantite_stock) ==
  quantite_exploitation - quantite_stock

\* the deficit of line 109
deficit_of(quantite_exploitation, quantite_stock) ==
  quantite_stock - quantite_exploitation

\* DeficitAnalyzer._merge_exploitation_stock
merge_exploitation_stock(exploitation_df, stock_df) ==
  LET merged == outer_merge(exploitation_df, stock_df)
      result == [k \in 1..Len(merged) |->
                   [magasin |-> merged[k].magasin,
                    nomenclature |-> merged[k].nomenclature,
                    quantite_exploitation |-> fillna(merged[k].quantite_exploitation),
                    quantite_stock |-> fillna(merged[k].quantite_stock),
                    deficit |-> deficit_of(fillna(merged[k].quantite_exploitation),
                                           fillna(merged[k].quantite_stock))]]
  IN sort_values(result)

(***************************************************************************)
(* Summary statistics.  A mean or a median is kept as the fraction         *)
(* <<numerator, denominator>>.                                             *)
(***************************************************************************)
RECURSIVE SumDeficit(_)
SumDeficit(df) == IF df = <<>> THEN 0 ELSE Head(df).deficit + SumDeficit(Tail(df))

\* a total that keeps its sign
signed(x) == x

\* abs()
Abs(x) == IF x < 0 THEN 0 - x ELSE x

RECURSIVE InsertInt(_, _)
InsertInt(sorted, x) ==
  IF sorted = <<>> THEN <<x>>
  ELSE IF x < Head(sorted) THEN <<x>> \o sorted
  ELSE <<Head(sorted)>> \o InsertInt(Tail(sorted), x)

RECURSIVE SortedDeficits(_)
SortedDeficits(df) ==
  IF df = <<>> THEN <<>> ELSE InsertInt(SortedDeficits(Tail(df)), Head(df).deficit)

\* Series.median()
Median(df) ==
  LET v == SortedDeficits(df)
      n == Len(v)
  IN IF n % 2 = 1 THEN << v[(n + 1) \div 2], 1 >>
     ELSE << v[n \div 2] + v[n \div 2 + 1], 2 >>

\* a filter that keeps every row
any_row(r) == TRUE

\* the filters of lines 139-141 on one row
non_nul(r) == r.deficit # 0
positif(r) == r.deficit > 0
negatif(r) == r.deficit < 0

\* DeficitAnalyzer._calculate_deficit_stats
calculate_deficit_stats(deficits_df) ==
  IF deficits_df = <<>>
  THEN [total_deficits |-> 0, deficit_total |-> 0, deficit_moyen |-> <<0, 1>>,
        magasins_concernes |-> 0, surplus_total |-> 0,
        sous_exploitation_total |-> 0]
  ELSE
    LET deficits_non_nuls == SelectSeq(deficits_df, non_nul)
        deficits_positifs == SelectSeq(deficits_df, positif)
        deficits_negatifs == SelectSeq(deficits_df, negatif)
    IN [total_deficits |-> Len(deficits_non_nuls),
        deficit_total |-> SumDeficit(deficits_df),
        deficit_moyen |-> << SumDeficit(deficits_df), Len(deficits_df) >>,
        deficit_median |-> Median(deficits_df),
        magasins_concernes |->
          Cardinality({deficits_non_nuls[k].magasin : k \in 1..Len(deficits_non_nuls)}),
        surplus_stock_count |-> Len(deficits_positifs),
        surplus_stock_total |-> SumDeficit(deficits_positifs),
        manque_stock_count |-> Len(deficits_negatifs),
        manque_stock_total |-> Abs(SumDeficit(deficits_negatifs))]

\* the cells of the long table in row-major order
RECURSIVE LongValues(_)
LongValues(df) ==
  IF df = <<>> THEN <<>>
  ELSE << Str(Head(df).nomenclature), Str(Head(df).magasin),
          Str(Head(df).magasin_code), Str(<<Head(df).type_donnee>>),
          Num(Head(df).quantite) >> \o LongValues(Tail(df))

\* cache_key of analyze_deficits (line 39)
deficit_cache_key(df, box) == tobytes(LongValues(df), box)

\* the partition of lines 46-47
exploitation_of(df) == SelectSeq(df, LAMBDA r : r.type_donnee = "U")
stock_of(df) == SelectSeq(df, LAMBDA r : r.type_donnee = "C")

\* a guard that also rejects a table without U or C rows
long_without_data(df) == exploitation_of(df) = <<>> /\ stock_of(df) = <<>>

\* df_long.empty of line 35, for a table that has the five long columns
long_empty(df) == df = <<>>

\* the test of line 49
no_data(exploitation_df, stock_df) == exploitation_df = <<>> /\ stock_df = <<>>

\* the AnalysisResult of lines 51-55 (metadata defaults to an empty dict)
zero_result ==
  [data |-> <<>>,
   summary |-> [total_deficits |-> 0, magasins_concernes |-> 0],
   metadata |-> <<>>]

\* the AnalysisResult of lines 57-71
full_result(exploitation_df, stock_df) ==
  LET deficits_df == merge_exploitation_stock(exploitation_df, stock_df)
  IN [data |-> deficits_df,
      summary |-> calculate_deficit_stats(deficits_df),
      metadata |-> [exploitation_entries |-> Len(exploitation_df),
                    stock_entries |-> Len(stock_df),
                    analysis_type |-> "deficit_analysis"]]

\* no AnalysisResult: the caller's variable before analyze_deficits returned
NoResult == [data |-> <<>>, summary |-> <<>>, metadata |-> <<>>]

\* a filter on the column magasin_code
filter_by_magasin_code(df_long, magasin) ==
  SelectSeq(df_long, LAMBDA r : r.magasin_code = magasin)

\* InventoryTransformer.filter_by_magasin(df_long, magasin)
filter_by_magasin(df_long, magasin) ==
  SelectSeq(df_long, LAMBDA r : r.magasin = magasin)

\* no call of filter_by_magasin yet
NoFilter == [made |-> FALSE, df_long |-> <<>>, magasin |-> <<>>]

\* The object a call returns is, or is not, the object of a _cache entry.
\* an object that no entry of the cache holds
NoAlias == [cached |-> FALSE, key |-> <<>>]

\* the object of the entry under the key
Alias(cache_key) == [cached |-> TRUE, key |-> cache_key]

\* line 42: return self._cache[cache_key], the stored object itself
returned_from_cache(cache_key) == Alias(cache_key)

\* lines 75 and 78: self._cache[cache_key] = result, then return result,
\* the same object
returned_after_store(cache_key) == Alias(cache_key)

\* what a caller may do to the AnalysisResult it holds: write a summary
\* entry, or drop the rows of the table in place
modified(res, how) ==
  IF how = "summary"
  THEN [res EXCEPT !.summary = [@ EXCEPT !.total_deficits = 0 - 1]]
  ELSE [res EXCEPT !.data = <<>>]

\* the cache after the caller modified the object it holds
cache_after_modify(cache, alias, how) ==
  IF alias.cached /\ alias.key \in DOMAIN cache
  THEN [cache EXCEPT ![alias.key] = modified(@, how)]
  ELSE cache

\* DeficitAnalyzer.analyze_deficits(df_long, use_cache) on an analyzer whose
\* _cache is cache: the exception raised ("" when it returns), the result
\* returned and the cache afterwards
analyze_deficits(cache, df, use_cache, box) ==
  IF long_empty(df)
  THEN [exc |-> "AnalysisError", ret |-> NoResult, cache |-> cache,
        alias |-> NoAlias]
  ELSE LET cache_key == deficit_cache_key(df, box)
           exploitation_df == exploitation_of(df)
           stock_df == stock_of(df)
       IN IF use_cache /\ cache_key \in DOMAIN cache
          THEN [exc |-> "", ret |-> cache[cache_key], cache |-> cache,
                alias |-> returned_from_cache(cache_key)]
          ELSE IF no_data(exploitation_df, stock_df)
          THEN [exc |-> "", ret |-> zero_result, cache |-> cache,
                alias |-> NoAlias]
          ELSE LET res == full_result(exploitation_df, stock_df)
               IN [exc |-> "", ret |-> res,
                   cache |-> IF writes_cache(use_cache)
                             THEN Put(cache, cache_key, res) ELSE cache,
                   alias |-> IF writes_cache(use_cache)
                             THEN returned_after_store(cache_key)
                             ELSE NoAlias]

(***************************************************************************)
(* The largest deficits.                                                   *)
(***************************************************************************)
\* the tables that hold the records of df in any row order
Reorderings(df) ==
  { [i \in 1..Len(df) |-> df[p[i]]] :
      p \in { p \in [1..Len(df) -> 1..Len(df)] :
                \A i, j \in 1..Len(df) : p[i] = p[j] => i = j } }

\* the dtype of the column 'deficit': the frame of lines 52-53, made by
\* pd.DataFrame(columns=[...]) and the only deficit table without rows, has
\* object columns; the merged frame of line 58 has numeric ones
deficit_dtype(data) == IF data = <<>> THEN "object" ELSE "numeric"

\* the frame line 171 assigns the column 'deficit_abs' into: df, the copy
\* that line 168 made
top_assign_target == "line_168"

\* line 171: df['deficit_abs'] = abs(df['deficit'])
with_deficit_abs(data) ==
  [k \in 1..Len(data) |-> data[k] @@ [deficit_abs |-> Abs(data[k].deficit)]]

\* drop('deficit_abs', axis=1)
drop_deficit_abs(data) ==
  [k \in 1..Len(data) |->
     [f \in DOMAIN data[k] \ {"deficit_abs"} |-> data[k][f]]]

\* stable insertion of a row into a table in descending order of the column
\* (after its equals)
RECURSIVE InsertDescending(_, _, _)
InsertDescending(sorted, r, column) ==
  IF sorted = <<>> THEN <<r>>
  ELSE IF r[column] > Head(sorted)[column] THEN <<r>> \o sorted
  ELSE <<Head(sorted)>> \o InsertDescending(Tail(sorted), r, column)

RECURSIVE StableDescendingFrom(_, _, _, _)
StableDescendingFrom(data, column, k, acc) ==
  IF k > Len(data) THEN acc
  ELSE StableDescendingFrom(data, column, k + 1,
                            InsertDescending(acc, data[k], column))

\* the rows in descending order of the column, equal values in table order
\* (the mergesort of the selection of nlargest)
StableDescending(data, column) == StableDescendingFrom(data, column, 1, <<>>)

\* the arrangements of the rows in descending order of the column
DescendingOrders(data, column) ==
  { t \in Reorderings(data) :
      \A k \in 1..(Len(t) - 1) : t[k][column] >= t[k + 1][column] }

\* DataFrame.nlargest(n, column) with keep='first' on a numeric column, the
\* frames a build can give: no row for n <= 0; for n >= len(df) the whole
\* column sorted with sort_values(ascending=False), whose default sort is
\* not stable, so rows of equal value come in any order; otherwise the
\* first n rows of the stable descending order
nlargest(data, n, column) ==
  IF n <= 0 THEN { <<>> }
  ELSE IF n >= Len(data) THEN DescendingOrders(data, column)
  ELSE { SubSeq(StableDescending(data, column), 1, n) }

\* DeficitAnalyzer.get_top_deficits(analysis_result, n, by_abs_value): the
\* outcomes of the call, each with the exception raised ("" when it
\* returns), the frame returned and the caller's AnalysisResult afterwards.
\* nlargest refuses a column of dtype object with a TypeError before it
\* looks at n.
get_top_deficits(analysis_result, n, by_abs_value) ==
  LET df == IF by_abs_value THEN with_deficit_abs(analysis_result.data)
                            ELSE analysis_result.data
      column == IF by_abs_value THEN "deficit_abs" ELSE "deficit"
      arg == IF by_abs_value /\ top_assign_target = "analysis_result.data"
             THEN [analysis_result EXCEPT !.data = df]
             ELSE analysis_result
  IN IF deficit_dtype(analysis_result.data) = "object"
     THEN { [exc |-> "TypeError", ret |-> <<>>, arg |-> arg] }
     ELSE { [exc |-> "",
             ret |-> IF by_abs_value THEN drop_deficit_abs(t) ELSE t,
             arg |-> arg] : t \in nlargest(df, n, column) }

(***************************************************************************)
(* The summary by store.  A float is kept as the fraction                  *)
(* <<numerator, denominator>> with a positive denominator.                 *)
(***************************************************************************)
RECURSIVE Pow10(_)
Pow10(decimals) == IF decimals = 0 THEN 1 ELSE 10 * Pow10(decimals - 1)

\* a value that is kept as computed
not_rounded(q, decimals) == q

\* .round(decimals) of a float: the nearest multiple of 10^-decimals, the
\* even one when two are as near
round(q, decimals) ==
  LET scale == Pow10(decimals)
      twice == 2 * q[1] * scale + q[2]
      k == twice \div (2 * q[2])
  IN << IF twice % (2 * q[2]) = 0 /\ k % 2 # 0 THEN k - 1 ELSE k, scale >>

\* Series.sum() of a column
RECURSIVE SumColumn(_, _)
SumColumn(df, column) ==
  IF df = <<>> THEN 0 ELSE Head(df)[column] + SumColumn(Tail(df), column)

\* the keys of groupby('magasin'), which sorts them
RECURSIVE InsertKey(_, _)
InsertKey(sorted, m) ==
  IF sorted = <<>> THEN <<m>>
  ELSE IF m = Head(sorted) THEN sorted
  ELSE IF StrLess(m, Head(sorted)) THEN <<m>> \o sorted
  ELSE <<Head(sorted)>> \o InsertKey(Tail(sorted), m)

RECURSIVE GroupKeys(_)
GroupKeys(df) ==
  IF df = <<>> THEN <<>> ELSE InsertKey(GroupKeys(Tail(df)), Head(df).magasin)

\* lines 190-198: the aggregates of one store, rounded to 2 decimals (the
\* counts and sums are whole numbers, which round(2) leaves as they are)
agg_magasin(df, m) ==
  LET group == SelectSeq(df, LAMBDA r : r.magasin = m)
  IN [magasin |-> m,
      nb_items |-> Len(group),
      deficit_total |-> SumColumn(group, "deficit"),
      deficit_moyen |-> round(<< SumColumn(group, "deficit"), Len(group) >>, 2),
      total_exploitation |-> SumColumn(group, "quantite_exploitation"),
      total_stock |-> SumColumn(group, "quantite_stock")]

\* lines 201-202: the column ratio_exp_stock
with_ratio(row) ==
  row @@ [ratio_exp_stock |->
            round(<< row.total_exploitation, row.total_stock + 1 >>, 3)]

\* DeficitAnalyzer.get_magasin_summary(analysis_result): the frames the call
\* can return.  sort_values('deficit_total', ascending=False) uses the
\* default sort, which is not stable: stores of equal deficit_total come in
\* any order.  On the table without rows the groupby has no group and the
\* frame returned has no row.
get_magasin_summary(analysis_result) ==
  LET df == analysis_result.data
      keys == GroupKeys(df)
      summary == [k \in 1..Len(keys) |-> with_ratio(agg_magasin(df, keys[k]))]
  IN DescendingOrders(summary, "deficit_total")

(***************************************************************************)
(* The importer.  A file is [exists, suffix, utf8, parses, frame]: whether *)
(* the path exists, the path's suffix, whether the bytes decode as UTF-8,  *)
(* whether pd.read_csv parses them, and the frame it parses.               *)
(***************************************************************************)
\* str.lower() on the suffixes explored
lower(suffix) == IF suffix \in {".CSV", ".Csv"} THEN ".csv" ELSE suffix

\* InventoryImporter._supported_encodings
supported_encodings == <<"utf-8", "latin-1", "cp1252">>

\* whether reading with the encoding gets past the decoding: every byte
\* sequence decodes as latin-1
decodes(file, encoding) ==
  CASE encoding = "utf-8" -> file.utf8
    [] encoding = "latin-1" -> TRUE
    [] OTHER -> FALSE

\* InventoryImporter._validate_data: the exception raised, "" when none
validate_data(df) ==
  IF empty(df) THEN "DataValidationError"
  ELSE IF Len(df.columns) < 2 THEN "DataValidationError"
  ELSE IF \A j \in 2..Len(df.columns) :
            ~(is_str(df.columns[j]) /\ EndsWithKind(df.columns[j]))
       THEN "DataValidationError"
  ELSE ""

\* the handler of lines 58-59: any exception of the try block other than
\* UnicodeDecodeError leaves as a DataImportError
except_import(e) == "DataImportError"

\* the loop of lines 45-64 from the k-th encoding on
RECURSIVE try_encodings(_, _)
try_encodings(file, k) ==
  IF k > Len(supported_encodings)
  THEN [exc |-> "DataImportError", ret |-> [columns |-> <<>>, rows |-> <<>>],
        reads |-> k - 1, refused |-> ""]
  ELSE IF ~decodes(file, supported_encodings[k])
       THEN try_encodings(file, k + 1)
  ELSE IF ~file.parses
       THEN [exc |-> except_import("ParserError"),
             ret |-> [columns |-> <<>>, rows |-> <<>>],
             reads |-> k, refused |-> ""]
  ELSE IF validate_data(file.frame) # ""
       THEN [exc |-> except_import(validate_data(file.frame)),
             ret |-> [columns |-> <<>>, rows |-> <<>>],
             reads |-> k, refused |-> ""]
  ELSE [exc |-> "", ret |-> file.frame, reads |-> k, refused |-> ""]

\* the extension first, then the existence
suffix_first == <<"suffix", "exists">>

\* the checks of lines 37-41 on the path, in the order they are made
path_checks == <<"exists", "suffix">>

\* whether the check refuses the path: line 37 (not path.exists()) and line
\* 40 (not path.suffix.lower() == '.csv')
refuses(check, file) ==
  IF check = "exists" THEN ~file.exists ELSE lower(file.suffix) # ".csv"

\* InventoryImporter.import_csv(file_path): the exception raised ("" when it
\* returns), the frame returned, the number of pd.read_csv calls made and
\* the check that refused the path, "" if none did
import_csv(file) ==
  LET refusing == SelectSeq(path_checks, LAMBDA check : refuses(check, file))
  IN IF refusing # <<>>
     THEN [exc |-> "DataImportError", ret |-> [columns |-> <<>>, rows |-> <<>>],
           reads |-> 0, refused |-> Head(refusing)]
     ELSE try_encodings(file, 1)

\* no call of import_csv yet
NoImport == [reads |-> 0, refused |-> ""]

(***************************************************************************)
(* The manager.  An Optional[pd.DataFrame] field is [none, df]: whether it *)
(* is None, and the frame it holds otherwise.                              *)
(***************************************************************************)
NoFrame == [none |-> TRUE, df |-> [columns |-> <<>>, rows |-> <<>>]]
NoLong == [none |-> TRUE, df |-> <<>>]
Held(df) == [none |-> FALSE, df |-> df]

\* a handler that lets the exception through
except_unwrapped(e) == e

\* the handler of lines 81-82
except_manager(e) == "MaterialManagerError"

\* MaterialManager.load_data(file_path) with its two fields and the _cache
\* of its transformer: the exception raised ("" when it returns), the fields
\* and the cache afterwards, and the calls made to the components with the
\* exception of each
load_data(raw, transformed, cache, f, box) ==
  LET imported == import_csv(f)
      reshaped == transform_to_long(cache, imported.ret, TRUE, box)
  IN IF imported.exc # ""
     THEN [exc |-> except_manager(imported.exc), raw |-> raw,
           transformed |-> transformed, cache |-> cache,
           steps |-> << [step |-> "import_csv", exc |-> imported.exc] >>]
     ELSE IF reshaped.exc # ""
     THEN [exc |-> except_manager(reshaped.exc), raw |-> Held(reshaped.arg),
           transformed |-> transformed, cache |-> reshaped.cache,
           steps |-> << [step |-> "import_csv", exc |-> ""],
                        [step |-> "transform_to_long", exc |-> reshaped.exc] >>]
     ELSE [exc |-> "", raw |-> Held(reshaped.arg),
           transformed |-> Held(reshaped.ret), cache |-> reshaped.cache,
           steps |-> << [step |-> "import_csv", exc |-> ""],
                        [step |-> "transform_to_long", exc |-> ""] >>]

\* a guard that looks at the raw table
raw_is_None(raw, transformed) == raw.none

\* self._transformed_data is None (lines 106, 132, 147, 162, 177, 189, 204,
\* 219, 234)
transformed_is_None(raw, transformed) == transformed.none

\* MaterialManager.has_data
has_data(transformed) == ~transformed.none /\ ~long_empty(transformed.df)

\* the methods of the manager that need loaded data
Queries ==
  {"calculate_global_statistics", "analyze_deficits", "get_top_magasins",
   "get_top_nomenclatures", "compare_exploitation_vs_stock",
   "get_magasin_details", "filter_by_magasin", "filter_by_nomenclature",
   "get_data_overview"}

\* one of these methods on a manager with the two fields and the _cache of
\* its deficit analyzer: the exception raised ("" when it returns), whether
\* a component was called, the AnalysisResult of analyze_deficits and the
\* cache afterwards.  The components raise AnalysisError on an empty long
\* table in calculate_global_stats (stats_analyzer.py line 35) and in
\* analyze_deficits; the other methods return on every long table.
query(op, raw, transformed, cache, box) ==
  IF transformed_is_None(raw, transformed)
  THEN [exc |-> "MaterialManagerError", called |-> FALSE, ret |-> NoResult,
        cache |-> cache, alias |-> NoAlias]
  ELSE IF op = "analyze_deficits"
  THEN LET call == analyze_deficits(cache, transformed.df, TRUE, box)
       IN [exc |-> call.exc, called |-> TRUE, ret |-> call.ret,
           cache |-> call.cache, alias |-> call.alias]
  ELSE IF op = "calculate_global_statistics" /\ long_empty(transformed.df)
  THEN [exc |-> "AnalysisError", called |-> TRUE, ret |-> NoResult,
        cache |-> cache, alias |-> NoAlias]
  ELSE [exc |-> "", called |-> TRUE, ret |-> NoResult, cache |-> cache,
        alias |-> NoAlias]

\* no call made on the manager yet
NoCall == [op |-> "", exc |-> "", steps |-> <<>>, called |-> FALSE]

(***************************************************************************)
(* Explored inputs.                                                        *)
(***************************************************************************)
Items == { <<"a">>, <<"b">> }

\* header of the nomenclature column
IdColumn == <<"N">>

\* headers of the store columns of the explored wide tables
ColumnLayouts ==
  { << <<"A">> >>,
    << <<"A", "-", "C">> >>,
    << <<"-", "U">> >>,
    << <<"A", "-", "U">>, <<"A", "-", "C">> >>,
    << <<"A", "-", "B", "-", "U">>, <<"A", "-", "C">> >>,
    << <<"A", "-", "U", "X">>, <<"A", "-", "u">> >>,
    << <<"A", "-", "U", "\n">>, <<"\n", "A", "-", "U">> >> }

\* nomenclature columns of the explored wide tables (one key per row)
KeyColumns ==
  { <<>>, << <<"a">> >>, << <<"a">>, <<"b">> >>, << <<"a">>, <<"a">> >> }

\* what a non-null store cell may hold
NonNullValues ==
  { Str(<<>>), Str(<<" ">>), Str(<<"x">>), Str(<<"2">>),
    Num(0 - 1), Num(0), Num(1), Num(3) }

Positions(layout, keys) == (1..Len(keys)) \X (1..Len(layout))

Fills(layout, keys) ==
  UNION { [S -> NonNullValues] :
            S \in { S \in SUBSET Positions(layout, keys) : Cardinality(S) <= MaxFilled } }

MakeWide(layout, keys, fill) ==
  [columns |-> <<IdColumn>> \o layout,
   rows |-> [i \in 1..Len(keys) |->
               << Str(keys[i]) >> \o
               [j \in 1..Len(layout) |->
                  IF <<i, j>> \in DOMAIN fill THEN fill[<<i, j>>] ELSE NaN]]]

\* pd.DataFrame()
EmptyFrame == [columns |-> <<>>, rows |-> <<>>]

WideTables ==
  {EmptyFrame} \cup
  UNION { UNION { { MakeWide(layout, keys, fill) : fill \in Fills(layout, keys) } :
                  keys \in KeyColumns } :
          layout \in ColumnLayouts }

Stores == { <<"A">>, <<"A", "-", "B">> }
Kinds == {"U", "C", "X"}
Quantities == {1, 2}

LongRecords ==
  { [nomenclature |-> i, magasin |-> m, magasin_code |-> m \o <<"-", k>>,
     type_donnee |-> k, quantite |-> q] :
      i \in Items, m \in Stores, k \in Kinds, q \in Quantities }

LongTables == UNION { [1..n -> LongRecords] : n \in 0..MaxLong }

\* the wide tables of a script that calls one transformer again and again:
\* the same cells under the column A-U and under the column A-C, a number
\* above the small ints, a table with an empty cell, a table built without
\* header (int labels) and the empty frame
OneCell(label, v) == MakeWide(<<label>>, << <<"a">> >>, <<1, 1>> :> v)

Headerless ==
  [columns |-> <<IntLabel("0"), IntLabel("1")>>,
   rows |-> << <<Str(<<"a">>), Num(1)>> >>]

CallTables ==
  { OneCell(<<"A", "-", "U">>, Num(1)),
    OneCell(<<"A", "-", "C">>, Num(1)),
    OneCell(<<"A", "-", "U">>, Num(300)),
    OneCell(<<"A", "-", "U">>, Num(500)),
    MakeWide(<< <<"A", "-", "U">>, <<"A", "-", "C">> >>, << <<"a">> >>,
             <<1, 1>> :> Num(2)),
    Headerless,
    EmptyFrame }

\* the long tables of a script that calls one analyzer again and again: one
\* store and item, a U record alone or with a C record, quantities inside
\* and above the small ints, and a table of another kind
LongRecord(k, q) ==
  [nomenclature |-> <<"a">>, magasin |-> <<"A">>, magasin_code |-> <<"A", "-", k>>,
   type_donnee |-> k, quantite |-> q]

CallLongs ==
  { << LongRecord("U", 1) >>,
    << LongRecord("U", 2) >>,
    << LongRecord("U", 300) >>,
    << LongRecord("U", 500) >>,
    << LongRecord("U", 300), LongRecord("C", 2) >>,
    << LongRecord("X", 1) >>,
    <<>> }

\* the frames pd.read_csv parses: a header of str labels, any number of rows
CsvFrames ==
  { MakeWide(layout, keys, <<>>) :
      layout \in ColumnLayouts \cup {<<>>}, keys \in KeyColumns }

Suffixes == {".csv", ".CSV", ".txt", ""}

Files ==
  [exists : BOOLEAN, suffix : Suffixes, utf8 : BOOLEAN, parses : BOOLEAN,
   frame : CsvFrames]

\* the files of a script that loads one file after another into a manager:
\* a table under the column A-U, the same cells under the column A-C, a
\* table whose only cell is empty, a table with a column named quantite, a
\* table without store column, a file that is not a .csv and a path that
\* does not exist
CsvFile(frame) ==
  [exists |-> TRUE, suffix |-> ".csv", utf8 |-> TRUE, parses |-> TRUE,
   frame |-> frame]

QuantiteColumn ==
  [columns |-> << value_name, <<"A", "-", "U">> >>,
   rows |-> << <<Str(<<"a">>), Num(2)>> >>]

ManagerFiles ==
  { CsvFile(OneCell(<<"A", "-", "U">>, Num(1))),
    CsvFile(OneCell(<<"A", "-", "C">>, Num(1))),
    CsvFile(OneCell(<<"A", "-", "U">>, NaN)),
    CsvFile(QuantiteColumn),
    CsvFile(OneCell(<<"A">>, Num(1))),
    [CsvFile(OneCell(<<"A", "-", "U">>, Num(1))) EXCEPT !.suffix = ".txt"],
    [CsvFile(OneCell(<<"A", "-", "U">>, Num(1))) EXCEPT !.exists = FALSE] }

(***************************************************************************)
(* State.                                                                  *)
(***************************************************************************)
(***************************************************************************)
(* The logistics flow: InventoryManager of modules/logistics_flow.py with  *)
(* the registers that build_default_manager fills.  The free texts of a    *)
(* call (references, inspector, carrier, priority, reason) and the time    *)
(* stamps are passed through to documents and history and are left out.    *)
(***************************************************************************)
\* the material that build_default_manager registers
generator == "6115-01-274-7387"

Nsns == {generator}

\* the location codes the calls name: the warehouse and the store of the
\* five locations that build_default_manager registers
LocationCodes == {"WH-01", "STORE-01"}

\* InventoryManager.locations
locations ==
  [c \in LocationCodes |->
     [name |-> IF c = "WH-01" THEN "Entrepot Ouest" ELSE "Magasin Nord",
      location_code |-> c,
      location_type |-> IF c = "WH-01" THEN "entrepot" ELSE "magasin"]]

\* the stock of a new InventoryManager, a defaultdict of defaultdict(int): a
\* level that was never written reads 0
NoStock == [c \in LocationCodes |-> [n \in Nsns |-> 0]]

\* the level that build_default_manager gives the warehouse
InitialStock == 10

\* the registers of a new InventoryManager
NoMaterials == <<>>

\* Material.add_history
add_history(material, entry) ==
  [material EXCEPT !.history = Append(@, entry)]

LogisticDocument(document_type, related_nsn, origin, destination, payload) ==
  [document_type |-> document_type, related_nsn |-> related_nsn,
   origin |-> origin, destination |-> destination, payload |-> payload]

\* InventoryManager.receive_material on the manager m: the exception raised
\* ("" when the call returns) and the manager afterwards
receive_material(m, nsn, quantity, warehouse_code) ==
  LET warehouse == locations[warehouse_code]
      document ==
        LogisticDocument("Reception", nsn, "Fournisseur", warehouse.name,
                         [quantite |-> quantity, entrepot |-> warehouse.name])
  IN [exc |-> "",
      m |-> [m EXCEPT
               !.stock[warehouse_code][nsn] = @ + quantity,
               !.materials[nsn] =
                  add_history(@, [entry |-> "Reception",
                                  quantity |-> quantity,
                                  place |-> warehouse.name]),
               !.documents = Append(@, document)]]

\* InventoryManager.plan_transport
plan_transport(m, mission_id, nsn, quantity, origin_code, destination_code) ==
  LET origin == locations[origin_code]
      destination == locations[destination_code]
      document ==
        LogisticDocument("Transport", nsn, origin.name, destination.name,
                         [quantite |-> quantity])
      mission ==
        [mission_id |-> mission_id, material_nsn |-> nsn,
         quantity |-> quantity, origin |-> origin,
         destination |-> destination, status |-> "en transit",
         documents |-> <<document>>]
  IN IF m.stock[origin_code][nsn] < quantity
     THEN [exc |-> "ValueError", m |-> m]
     ELSE [exc |-> "",
           m |-> [m EXCEPT
                    !.transport_missions = (mission_id :> mission) @@ @,
                    !.documents = Append(@, document),
                    !.stock[origin_code][nsn] = @ - quantity,
                    !.materials[nsn] =
                       add_history(@, [entry |-> "Transport lance",
                                       quantity |-> mission_id,
                                       place |-> destination.name])]]

\* InventoryManager.complete_transport
complete_transport(m, mission_id) ==
  IF mission_id \notin DOMAIN m.transport_missions
  THEN [exc |-> "KeyError", m |-> m]
  ELSE
    LET mission ==
          [m.transport_missions[mission_id] EXCEPT !.status = "livre"]
        destination_code == mission.destination.location_code
        document ==
          LogisticDocument("Transport", mission.material_nsn,
                           mission.origin.name, mission.destination.name,
                           [statut |-> mission.status,
                            quantite |-> mission.quantity])
    IN [exc |-> "",
        m |-> [m EXCEPT
                 !.transport_missions[mission_id] = mission,
                 !.stock[destination_code][mission.material_nsn] =
                    @ + mission.quantity,
                 !.documents = Append(@, document),
                 !.materials[mission.material_nsn] =
                    add_history(@, [entry |-> "Transport livre",
                                    quantity |-> mission.mission_id,
                                    place |-> mission.destination.name])]]

\* InventoryManager.assign_to_store
assign_to_store(m, nsn, store_code, quantity) ==
  LET document ==
        LogisticDocument("Stock", nsn, locations[store_code].name,
                         <<"Distribution finale", store_code>>,
                         [quantite |-> quantity])
  IN IF m.stock[store_code][nsn] < quantity
     THEN [exc |-> "ValueError", m |-> m]
     ELSE [exc |-> "",
           m |-> [m EXCEPT
                    !.stock[store_code][nsn] = @ - quantity,
                    !.documents = Append(@, document),
                    !.materials[nsn] =
                       add_history(@, [entry |-> "affectees",
                                       quantity |-> quantity,
                                       place |-> store_code])]]

\* InventoryManager.schedule_disposal
schedule_disposal(m, nsn, disposal_code, quantity) ==
  LET document ==
        LogisticDocument("Elimination", nsn, locations[disposal_code].name,
                         "Centre d'elimination", [quantite |-> quantity])
  IN IF m.stock[disposal_code][nsn] < quantity
     THEN [exc |-> "ValueError", m |-> m]
     ELSE [exc |-> "",
           m |-> [m EXCEPT
                    !.stock[disposal_code][nsn] = @ - quantity,
                    !.documents = Append(@, document),
                    !.materials[nsn] =
                       add_history(@, [entry |-> "elimination",
                                       quantity |-> quantity,
                                       place |-> disposal_code])]]

\* no call on the InventoryManager yet
NoLogisticsCall == [op |-> "", quantity |-> 0, exc |-> ""]

VARIABLES
  pc,        \* where the calling script is: "wide", "long", "failed", "done"
  df_wide,   \* the wide table handed to transform_to_long
  df_long,   \* the long table handed to analyze_deficits
  t_exc,     \* the exception transform_to_long raised, "" when it returned
  result,    \* the AnalysisResult analyze_deficits returned
  a_exc,     \* the exception analyze_deficits raised, "" when it returned
  t_cache,   \* InventoryTransformer._cache
  a_cache,   \* DeficitAnalyzer._cache
  file,      \* the file handed to import_csv
  i_exc,     \* the exception import_csv raised, "" when it returned
  th,        \* the callers that run a call at the same time, <<>> if none
  top,       \* the last call of get_top_deficits: its arguments and outcome
  magasin_summary,\* the frame the last call of get_magasin_summary returned
  raw_data,  \* MaterialManager._raw_data
  transformed_data,\* MaterialManager._transformed_data
  m_call,    \* the last call made on the manager: method, argument, exception, steps
  m_loaded,  \* whether a load_data call on the manager has returned
  i_call,    \* the last call of import_csv: read_csv calls made, check that refused the path
  result_key,\* the key of the _cache entry that is the object result, NoAlias if the object is not in the cache
  filter_call,\* the last call of filter_by_magasin: the table and the store it was given
  cached_call,\* use_cache of the last call the script made of transform_to_long or analyze_deficits
  materials, \* InventoryManager.materials
  stock,     \* InventoryManager.stock
  transport_missions,\* InventoryManager.transport_missions
  documents, \* InventoryManager.documents
  l_call     \* the last call made on the InventoryManager: method, quantity, exception

vars == <<pc, df_wide, df_long, t_exc, result, a_exc, t_cache, a_cache,
          file, i_exc, th, top, magasin_summary, raw_data, transformed_data, m_call, m_loaded, i_call, result_key, filter_call, cached_call, materials, stock, transport_missions, documents, l_call>>

\* no call of get_top_deficits yet
NoTop == [n |-> 0, by_abs_value |-> FALSE, exc |-> "", ret |-> <<>>]

\* a script that imports nothing
NoFile ==
  [exists |-> FALSE, suffix |-> "", utf8 |-> FALSE, parses |-> FALSE,
   frame |-> EmptyFrame]

\* a script that holds a wide table and fresh components
Init ==
  /\ pc = "wide"
  /\ df_wide \in WideTables
  /\ df_long = <<>>
  /\ t_exc = ""
  /\ result = NoResult
  /\ a_exc = ""
  /\ t_cache = <<>>
  /\ a_cache = <<>>
  /\ file = NoFile
  /\ i_exc = ""
  /\ th = <<>>
  /\ top = NoTop
  /\ magasin_summary = <<>>
  /\ raw_data = NoFrame
  /\ transformed_data = NoLong
  /\ m_call = NoCall
  /\ m_loaded = FALSE
  /\ i_call = NoImport
  /\ result_key = NoAlias
  /\ filter_call = NoFilter
  /\ cached_call = TRUE
  /\ materials = NoMaterials
  /\ stock = NoStock
  /\ transport_missions = <<>>
  /\ documents = <<>>
  /\ l_call = NoLogisticsCall

\* a script that holds a long table and a fresh analyzer
InitLong ==
  /\ pc = "long"
  /\ df_wide = EmptyFrame
  /\ df_long \in LongTables
  /\ t_exc = ""
  /\ result = NoResult
  /\ a_exc = ""
  /\ t_cache = <<>>
  /\ a_cache = <<>>
  /\ file = NoFile
  /\ i_exc = ""
  /\ th = <<>>
  /\ top = NoTop
  /\ magasin_summary = <<>>
  /\ raw_data = NoFrame
  /\ transformed_data = NoLong
  /\ m_call = NoCall
  /\ m_loaded = FALSE
  /\ i_call = NoImport
  /\ result_key = NoAlias
  /\ filter_call = NoFilter
  /\ cached_call = TRUE
  /\ materials = NoMaterials
  /\ stock = NoStock
  /\ transport_missions = <<>>
  /\ documents = <<>>
  /\ l_call = NoLogisticsCall

\* the addresses the allocator may give to the objects .values boxes
Boxes == {0, 1}

\* a call of InventoryTransformer.transform_to_long(df_wide, use_cache)
TransformToLong ==
  /\ pc = "wide"
  /\ \E use_cache \in BOOLEAN, box \in Boxes :
       LET call == transform_to_long(t_cache, df_wide, use_cache, box)
       IN /\ cached_call' = use_cache
          /\ t_exc' = call.exc
          /\ pc' = IF call.exc = "" THEN "long" ELSE "failed"
          /\ df_long' = IF call.exc = "" THEN call.ret ELSE df_long
          /\ t_cache' = call.cache
          /\ df_wide' = call.arg
  /\ UNCHANGED <<result, a_exc, a_cache, file, i_exc, th, top, magasin_summary, raw_data, transformed_data, m_call, m_loaded, i_call, result_key, filter_call, materials, stock, transport_missions, documents, l_call>>

\* a call of DeficitAnalyzer.analyze_deficits(df_long, use_cache)
AnalyzeDeficits ==
  /\ pc = "long"
  /\ pc' = "done"
  /\ \E use_cache \in BOOLEAN, box \in Boxes :
       LET call == analyze_deficits(a_cache, df_long, use_cache, box)
       IN /\ cached_call' = use_cache
          /\ a_exc' = call.exc
          /\ result' = IF call.exc = "" THEN call.ret ELSE result
          /\ result_key' = IF call.exc = "" THEN call.alias ELSE result_key
          /\ a_cache' = call.cache
  /\ UNCHANGED <<df_wide, df_long, t_exc, t_cache, file, i_exc, th, top, magasin_summary, raw_data, transformed_data, m_call, m_loaded, i_call, filter_call, materials, stock, transport_missions, documents, l_call>>

Next == TransformToLong \/ AnalyzeDeficits

\* the values of n explored: none, fewer than, as many as and more than the
\* rows of a table (10 is the default)
TopSizes == {0, 1, 2, 10}

\* a call of DeficitAnalyzer.get_top_deficits(result, n, by_abs_value) on
\* the result that analyze_deficits returned
GetTopDeficits ==
  /\ pc = "done"
  /\ a_exc = ""
  /\ pc' = "top"
  /\ \E n \in TopSizes, by_abs_value \in BOOLEAN :
       \E call \in get_top_deficits(result, n, by_abs_value) :
         /\ top' = [n |-> n, by_abs_value |-> by_abs_value,
                    exc |-> call.exc, ret |-> call.ret]
         /\ result' = call.arg
  /\ UNCHANGED <<df_wide, df_long, t_exc, a_exc, t_cache, a_cache, file, i_exc,
                 th, magasin_summary, raw_data, transformed_data, m_call, m_loaded, i_call, result_key, filter_call, cached_call, materials, stock, transport_missions, documents, l_call>>

NextTop == AnalyzeDeficits \/ GetTopDeficits

\* the script filters its long table to one of the stores that occur in it
\* and goes on with the filtered table
FilterByMagasin ==
  /\ pc = "long"
  /\ ~filter_call.made
  /\ \E k \in DOMAIN df_long :
       /\ filter_call' = [made |-> TRUE, df_long |-> df_long,
                          magasin |-> df_long[k].magasin]
       /\ df_long' = filter_by_magasin(df_long, df_long[k].magasin)
  /\ UNCHANGED <<pc, df_wide, t_exc, result, a_exc, t_cache, a_cache, file,
                 i_exc, th, top, magasin_summary, raw_data, transformed_data,
                 m_call, m_loaded, i_call, result_key, cached_call, materials, stock, transport_missions, documents, l_call>>

NextFilter == FilterByMagasin \/ AnalyzeDeficits

\* a long table with three items in one store
ThreeItems ==
  << [nomenclature |-> <<"a">>, magasin |-> <<"A">>,
      magasin_code |-> <<"A", "-", "U">>, type_donnee |-> "U", quantite |-> 1],
     [nomenclature |-> <<"b">>, magasin |-> <<"A">>,
      magasin_code |-> <<"A", "-", "U">>, type_donnee |-> "U", quantite |-> 1],
     [nomenclature |-> <<"a", "b">>, magasin |-> <<"A">>,
      magasin_code |-> <<"A", "-", "U">>, type_donnee |-> "U", quantite |-> 2] >>

\* a long table with two stores, one of them with stock
TwoStores ==
  << [nomenclature |-> <<"a">>, magasin |-> <<"A">>,
      magasin_code |-> <<"A", "-", "U">>, type_donnee |-> "U", quantite |-> 1],
     [nomenclature |-> <<"a">>, magasin |-> <<"A">>,
      magasin_code |-> <<"A", "-", "C">>, type_donnee |-> "C", quantite |-> 2],
     [nomenclature |-> <<"a">>, magasin |-> <<"A", "-", "B">>,
      magasin_code |-> <<"A", "-", "B", "-", "U">>, type_donnee |-> "U",
      quantite |-> 2] >>

\* a script that holds a long table, any of LongTables, ThreeItems or
\* TwoStores, and a fresh analyzer
InitSummary ==
  /\ pc = "long"
  /\ df_wide = EmptyFrame
  /\ df_long \in LongTables \cup {ThreeItems, TwoStores}
  /\ t_exc = ""
  /\ result = NoResult
  /\ a_exc = ""
  /\ t_cache = <<>>
  /\ a_cache = <<>>
  /\ file = NoFile
  /\ i_exc = ""
  /\ th = <<>>
  /\ top = NoTop
  /\ magasin_summary = <<>>
  /\ raw_data = NoFrame
  /\ transformed_data = NoLong
  /\ m_call = NoCall
  /\ m_loaded = FALSE
  /\ i_call = NoImport
  /\ result_key = NoAlias
  /\ filter_call = NoFilter
  /\ cached_call = TRUE
  /\ materials = NoMaterials
  /\ stock = NoStock
  /\ transport_missions = <<>>
  /\ documents = <<>>
  /\ l_call = NoLogisticsCall

\* a call of DeficitAnalyzer.get_magasin_summary(result) on the result that
\* analyze_deficits returned
GetMagasinSummary ==
  /\ pc = "done"
  /\ a_exc = ""
  /\ pc' = "summary"
  /\ magasin_summary' \in get_magasin_summary(result)
  /\ UNCHANGED <<df_wide, df_long, t_exc, result, a_exc, t_cache, a_cache, file,
                 i_exc, th, top, raw_data, transformed_data, m_call, m_loaded, i_call, result_key, filter_call, cached_call, materials, stock, transport_missions, documents, l_call>>

NextSummary == AnalyzeDeficits \/ GetMagasinSummary

\* the script hands another wide table to the same transformer
NextTable ==
  /\ pc \in {"long", "failed"}
  /\ pc' = "wide"
  /\ df_wide' \in CallTables
  /\ UNCHANGED <<df_long, t_exc, result, a_exc, t_cache, a_cache, file, i_exc, th, top, magasin_summary, raw_data, transformed_data, m_call, m_loaded, i_call, result_key, filter_call, cached_call, materials, stock, transport_missions, documents, l_call>>

\* InventoryTransformer.clear_cache()
TransformerClearCache ==
  /\ pc = "wide"
  /\ t_cache' = <<>>
  /\ UNCHANGED <<pc, df_wide, df_long, t_exc, result, a_exc, a_cache, file, i_exc, th, top, magasin_summary, raw_data, transformed_data, m_call, m_loaded, i_call, result_key, filter_call, cached_call, materials, stock, transport_missions, documents, l_call>>

\* a script that holds one of the tables of CallTables and a new transformer
InitCalls ==
  /\ pc = "wide"
  /\ df_wide \in CallTables
  /\ df_long = <<>>
  /\ t_exc = ""
  /\ result = NoResult
  /\ a_exc = ""
  /\ t_cache = <<>>
  /\ a_cache = <<>>
  /\ file = NoFile
  /\ i_exc = ""
  /\ th = <<>>
  /\ top = NoTop
  /\ magasin_summary = <<>>
  /\ raw_data = NoFrame
  /\ transformed_data = NoLong
  /\ m_call = NoCall
  /\ m_loaded = FALSE
  /\ i_call = NoImport
  /\ result_key = NoAlias
  /\ filter_call = NoFilter
  /\ cached_call = TRUE
  /\ materials = NoMaterials
  /\ stock = NoStock
  /\ transport_missions = <<>>
  /\ documents = <<>>
  /\ l_call = NoLogisticsCall

\* the script hands another long table to the same analyzer
NextLong ==
  /\ pc = "done"
  /\ pc' = "long"
  /\ df_long' \in CallLongs
  /\ UNCHANGED <<df_wide, t_exc, result, a_exc, t_cache, a_cache, file, i_exc, th, top, magasin_summary, raw_data, transformed_data, m_call, m_loaded, i_call, result_key, filter_call, cached_call, materials, stock, transport_missions, documents, l_call>>

\* DeficitAnalyzer.clear_cache()
AnalyzerClearCache ==
  /\ pc = "long"
  /\ a_cache' = <<>>
  /\ result_key' = NoAlias
  /\ UNCHANGED <<pc, df_wide, df_long, t_exc, result, a_exc, t_cache, file, i_exc, th, top, magasin_summary, raw_data, transformed_data, m_call, m_loaded, i_call, filter_call, cached_call, materials, stock, transport_missions, documents, l_call>>

\* a script that holds one of the tables of CallLongs and a new analyzer
InitLongCalls ==
  /\ pc = "long"
  /\ df_wide = EmptyFrame
  /\ df_long \in CallLongs
  /\ t_exc = ""
  /\ result = NoResult
  /\ a_exc = ""
  /\ t_cache = <<>>
  /\ a_cache = <<>>
  /\ file = NoFile
  /\ i_exc = ""
  /\ th = <<>>
  /\ top = NoTop
  /\ magasin_summary = <<>>
  /\ raw_data = NoFrame
  /\ transformed_data = NoLong
  /\ m_call = NoCall
  /\ m_loaded = FALSE
  /\ i_call = NoImport
  /\ result_key = NoAlias
  /\ filter_call = NoFilter
  /\ cached_call = TRUE
  /\ materials = NoMaterials
  /\ stock = NoStock
  /\ transport_missions = <<>>
  /\ documents = <<>>
  /\ l_call = NoLogisticsCall

NextAnalyzer == AnalyzeDeficits \/ NextLong \/ AnalyzerClearCache

\* the long tables of CallLongs whose quantities are small ints
SmallLongs ==
  { << LongRecord("U", 1) >>,
    << LongRecord("U", 2) >>,
    << LongRecord("U", 1), LongRecord("C", 2) >>,
    << LongRecord("X", 1) >> }

\* a script that holds one of the tables of SmallLongs and a new analyzer
InitAlias ==
  /\ pc = "long"
  /\ df_wide = EmptyFrame
  /\ df_long \in SmallLongs
  /\ t_exc = ""
  /\ result = NoResult
  /\ a_exc = ""
  /\ t_cache = <<>>
  /\ a_cache = <<>>
  /\ file = NoFile
  /\ i_exc = ""
  /\ th = <<>>
  /\ top = NoTop
  /\ magasin_summary = <<>>
  /\ raw_data = NoFrame
  /\ transformed_data = NoLong
  /\ m_call = NoCall
  /\ m_loaded = FALSE
  /\ i_call = NoImport
  /\ result_key = NoAlias
  /\ filter_call = NoFilter
  /\ cached_call = TRUE
  /\ materials = NoMaterials
  /\ stock = NoStock
  /\ transport_missions = <<>>
  /\ documents = <<>>
  /\ l_call = NoLogisticsCall

\* the script hands another table of SmallLongs to the same analyzer
NextSmallLong ==
  /\ pc = "done"
  /\ pc' = "long"
  /\ df_long' \in SmallLongs
  /\ UNCHANGED <<df_wide, t_exc, result, a_exc, t_cache, a_cache, file, i_exc,
                 th, top, magasin_summary, raw_data, transformed_data, m_call,
                 m_loaded, i_call, result_key, filter_call, cached_call, materials, stock, transport_missions, documents, l_call>>

\* the caller modifies the AnalysisResult that the last call returned
ModifyResult ==
  /\ pc = "done"
  /\ a_exc = ""
  /\ \E how \in {"summary", "data"} :
       /\ result' = modified(result, how)
       /\ a_cache' = cache_after_modify(a_cache, result_key, how)
  /\ UNCHANGED <<pc, df_wide, df_long, t_exc, a_exc, t_cache, file, i_exc, th,
                 top, magasin_summary, raw_data, transformed_data, m_call,
                 m_loaded, i_call, result_key, filter_call, cached_call, materials, stock, transport_missions, documents, l_call>>

NextAlias == AnalyzeDeficits \/ NextSmallLong \/ ModifyResult

\* the wide tables of a script that uses a transformer and an analyzer with
\* and without their caches: a table with one cell, a table whose only cell
\* is empty, a table built without header and the empty frame
SmallTables ==
  { OneCell(<<"A", "-", "U">>, Num(1)),
    OneCell(<<"A", "-", "U">>, NaN),
    Headerless,
    EmptyFrame }

\* a script that holds one of the tables of SmallTables, a new transformer
\* and a new analyzer
InitCaches ==
  /\ pc = "wide"
  /\ df_wide \in SmallTables
  /\ df_long = <<>>
  /\ t_exc = ""
  /\ result = NoResult
  /\ a_exc = ""
  /\ t_cache = <<>>
  /\ a_cache = <<>>
  /\ file = NoFile
  /\ i_exc = ""
  /\ th = <<>>
  /\ top = NoTop
  /\ magasin_summary = <<>>
  /\ raw_data = NoFrame
  /\ transformed_data = NoLong
  /\ m_call = NoCall
  /\ m_loaded = FALSE
  /\ i_call = NoImport
  /\ result_key = NoAlias
  /\ filter_call = NoFilter
  /\ cached_call = TRUE
  /\ materials = NoMaterials
  /\ stock = NoStock
  /\ transport_missions = <<>>
  /\ documents = <<>>
  /\ l_call = NoLogisticsCall

\* the script hands another table of SmallTables to the transformer
NextSmallTable ==
  /\ pc \in {"long", "failed", "done"}
  /\ pc' = "wide"
  /\ df_wide' \in SmallTables
  /\ UNCHANGED <<df_long, t_exc, result, a_exc, t_cache, a_cache, file, i_exc,
                 th, top, magasin_summary, raw_data, transformed_data, m_call,
                 m_loaded, i_call, result_key, filter_call, cached_call, materials, stock, transport_missions, documents, l_call>>

NextCaches ==
  \/ TransformToLong
  \/ AnalyzeDeficits
  \/ NextSmallTable
  \/ NextSmallLong
  \/ TransformerClearCache
  \/ AnalyzerClearCache

(***************************************************************************)
(* Several callers inside one call at the same time.  The frames and the   *)
(* results under construction are local to a caller; the _cache dict is    *)
(* the only object they share, and a dict lookup or assignment is one      *)
(* step.                                                                   *)
(***************************************************************************)
Threads == {1, 2}

\* the values of the local df_long of transform_to_long after lines 50, 58
\* and 61-67
transform_stages(df) == << melt(df), clean_data(melt(df)), reshape(df) >>

\* what analyze_deficits has built after lines 58, 61 and 63-71
analyze_stages(df) ==
  LET exploitation_df == exploitation_of(df)
      stock_df == stock_of(df)
      deficits_df == merge_exploitation_stock(exploitation_df, stock_df)
  IN << [data |-> deficits_df, summary |-> <<>>, metadata |-> <<>>],
        [data |-> deficits_df, summary |-> calculate_deficit_stats(deficits_df),
         metadata |-> <<>>],
        full_result(exploitation_df, stock_df) >>

stages_of(fn) ==
  IF fn = "transform" THEN transform_stages(df_wide) ELSE analyze_stages(df_long)

\* a cache write as soon as something is built
store_early(n, last) == n >= 1

\* where the cache write stands (lines 72-73 of the transformer, 74-75 of
\* the analyzer): after the last building step
store_allowed(n, last) == n = last

\* a caller at the first line of the function
NewThread(fn) ==
  [fn |-> fn, at |-> "enter", key |-> <<>>, n |-> 0, local |-> <<>>,
   stored |-> FALSE, ret |-> <<>>, via |-> "", exc |-> ""]

\* the callers run fn on the same table and the same component
InitThreads ==
  /\ pc = "threads"
  /\ \E fn \in {"transform", "analyze"} :
       /\ th = [t \in Threads |-> NewThread(fn)]
       /\ IF fn = "transform"
          THEN df_wide \in CallTables /\ df_long = <<>>
          ELSE df_wide = EmptyFrame /\ df_long \in CallLongs
  /\ t_exc = ""
  /\ result = NoResult
  /\ a_exc = ""
  /\ t_cache = <<>>
  /\ a_cache = <<>>
  /\ file = NoFile
  /\ i_exc = ""
  /\ top = NoTop
  /\ magasin_summary = <<>>
  /\ raw_data = NoFrame
  /\ transformed_data = NoLong
  /\ m_call = NoCall
  /\ m_loaded = FALSE
  /\ i_call = NoImport
  /\ result_key = NoAlias
  /\ filter_call = NoFilter
  /\ cached_call = TRUE
  /\ materials = NoMaterials
  /\ stock = NoStock
  /\ transport_missions = <<>>
  /\ documents = <<>>
  /\ l_call = NoLogisticsCall

\* lines 35-39: the guard on an empty table, then the cache key
Enter(t) ==
  /\ pc = "threads"
  /\ th[t].at = "enter"
  /\ \E box \in Boxes :
       th' = [th EXCEPT ![t] =
                IF th[t].fn = "transform"
                THEN IF empty(df_wide)
                     THEN [@ EXCEPT !.at = "raised", !.exc = "DataTransformationError"]
                     ELSE [@ EXCEPT !.at = "test",
                                    !.key = transform_cache_key(df_wide, box)]
                ELSE IF long_empty(df_long)
                     THEN [@ EXCEPT !.at = "raised", !.exc = "AnalysisError"]
                     ELSE [@ EXCEPT !.at = "test",
                                    !.key = deficit_cache_key(df_long, box)]]
  /\ UNCHANGED <<pc, df_wide, df_long, t_exc, result, a_exc, t_cache, a_cache,
                 file, i_exc, top, magasin_summary, raw_data, transformed_data, m_call, m_loaded, i_call, result_key, filter_call, cached_call, materials, stock, transport_missions, documents, l_call>>

\* line 40: cache_key in self._cache (use_cache is true)
Test(t) ==
  /\ pc = "threads"
  /\ th[t].at = "test"
  /\ LET cache == IF th[t].fn = "transform" THEN t_cache ELSE a_cache
     IN th' = [th EXCEPT ![t].at =
                 IF th[t].key \in DOMAIN cache THEN "fetch" ELSE "compute"]
  /\ UNCHANGED <<pc, df_wide, df_long, t_exc, result, a_exc, t_cache, a_cache,
                 file, i_exc, top, magasin_summary, raw_data, transformed_data, m_call, m_loaded, i_call, result_key, filter_call, cached_call, materials, stock, transport_missions, documents, l_call>>

\* line 42: return self._cache[cache_key] (a copy of it in the transformer)
Fetch(t) ==
  /\ pc = "threads"
  /\ th[t].at = "fetch"
  /\ LET cache == IF th[t].fn = "transform" THEN t_cache ELSE a_cache
     IN th' = [th EXCEPT ![t] =
                 IF th[t].key \in DOMAIN cache
                 THEN [@ EXCEPT !.at = "done", !.ret = cache[th[t].key],
                                !.via = "cache"]
                 ELSE [@ EXCEPT !.at = "raised", !.exc = "KeyError"]]
  /\ UNCHANGED <<pc, df_wide, df_long, t_exc, result, a_exc, t_cache, a_cache,
                 file, i_exc, top, magasin_summary, raw_data, transformed_data, m_call, m_loaded, i_call, result_key, filter_call, cached_call, materials, stock, transport_missions, documents, l_call>>

\* one building step of the try block; the first one is where the
\* transformer may fail and where the analyzer returns the zero-result
Compute(t) ==
  /\ pc = "threads"
  /\ th[t].at = "compute"
  /\ th[t].n < Len(stages_of(th[t].fn))
  /\ th' = [th EXCEPT ![t] =
              IF th[t].fn = "transform" /\ th[t].n = 0 /\ melt_raises(df_wide)
              THEN [@ EXCEPT !.at = "raised",
                             !.exc = except_transformation("ValueError")]
              ELSE IF /\ th[t].fn = "transform"
                      /\ th[t].n = 0
                      /\ str_accessor_raises(df_wide)
              THEN [@ EXCEPT !.at = "raised",
                             !.exc = except_transformation("AttributeError")]
              ELSE IF /\ th[t].fn = "analyze"
                      /\ th[t].n = 0
                      /\ no_data(exploitation_of(df_long), stock_of(df_long))
              THEN [@ EXCEPT !.at = "done", !.ret = zero_result, !.via = "computed"]
              ELSE [@ EXCEPT !.n = @ + 1,
                             !.local = stages_of(th[t].fn)[th[t].n + 1]]]
  /\ UNCHANGED <<pc, df_wide, df_long, t_exc, result, a_exc, t_cache, a_cache,
                 file, i_exc, top, magasin_summary, raw_data, transformed_data, m_call, m_loaded, i_call, result_key, filter_call, cached_call, materials, stock, transport_missions, documents, l_call>>

\* the cache write: self._cache[cache_key] = what was built
Store(t) ==
  /\ pc = "threads"
  /\ th[t].at = "compute"
  /\ ~th[t].stored
  /\ store_allowed(th[t].n, Len(stages_of(th[t].fn)))
  /\ th' = [th EXCEPT ![t].stored = TRUE]
  /\ IF th[t].fn = "transform"
     THEN /\ t_cache' = Put(t_cache, th[t].key, th[t].local)
          /\ UNCHANGED a_cache
     ELSE /\ a_cache' = Put(a_cache, th[t].key, th[t].local)
          /\ UNCHANGED t_cache
  /\ UNCHANGED <<pc, df_wide, df_long, t_exc, result, a_exc, file, i_exc, top, magasin_summary, raw_data, transformed_data, m_call, m_loaded, i_call, result_key, filter_call, cached_call, materials, stock, transport_missions, documents, l_call>>

\* the return of line 75 (transformer) or 78 (analyzer)
Return(t) ==
  /\ pc = "threads"
  /\ th[t].at = "compute"
  /\ th[t].stored
  /\ th[t].n = Len(stages_of(th[t].fn))
  /\ th' = [th EXCEPT ![t] = [@ EXCEPT !.at = "done", !.ret = th[t].local,
                                       !.via = "computed"]]
  /\ UNCHANGED <<pc, df_wide, df_long, t_exc, result, a_exc, t_cache, a_cache,
                 file, i_exc, top, magasin_summary, raw_data, transformed_data, m_call, m_loaded, i_call, result_key, filter_call, cached_call, materials, stock, transport_missions, documents, l_call>>

NextThreads ==
  \E t \in Threads :
    Enter(t) \/ Test(t) \/ Fetch(t) \/ Compute(t) \/ Store(t) \/ Return(t)

\* a script that holds a file and a new importer
InitFile ==
  /\ pc = "file"
  /\ file \in Files
  /\ i_exc = ""
  /\ th = <<>>
  /\ top = NoTop
  /\ df_wide = EmptyFrame
  /\ df_long = <<>>
  /\ t_exc = ""
  /\ result = NoResult
  /\ a_exc = ""
  /\ t_cache = <<>>
  /\ a_cache = <<>>
  /\ magasin_summary = <<>>
  /\ raw_data = NoFrame
  /\ transformed_data = NoLong
  /\ m_call = NoCall
  /\ m_loaded = FALSE
  /\ i_call = NoImport
  /\ result_key = NoAlias
  /\ filter_call = NoFilter
  /\ cached_call = TRUE
  /\ materials = NoMaterials
  /\ stock = NoStock
  /\ transport_missions = <<>>
  /\ documents = <<>>
  /\ l_call = NoLogisticsCall

\* a call of InventoryImporter.import_csv(file_path)
ImportCsv ==
  /\ pc = "file"
  /\ LET call == import_csv(file)
     IN /\ i_exc' = call.exc
        /\ i_call' = [reads |-> call.reads, refused |-> call.refused]
        /\ pc' = IF call.exc = "" THEN "wide" ELSE "rejected"
        /\ df_wide' = IF call.exc = "" THEN call.ret ELSE df_wide
  /\ UNCHANGED <<df_long, t_exc, result, a_exc, t_cache, a_cache, file, th,
                 top, magasin_summary, raw_data, transformed_data, m_call, m_loaded, result_key, filter_call, cached_call, materials, stock, transport_missions, documents, l_call>>

\* MaterialManager.__init__: no data, new components
InitManager ==
  /\ pc = "manager"
  /\ raw_data = NoFrame
  /\ transformed_data = NoLong
  /\ m_call = NoCall
  /\ m_loaded = FALSE
  /\ df_wide = EmptyFrame
  /\ df_long = <<>>
  /\ t_exc = ""
  /\ result = NoResult
  /\ a_exc = ""
  /\ t_cache = <<>>
  /\ a_cache = <<>>
  /\ file = NoFile
  /\ i_exc = ""
  /\ th = <<>>
  /\ top = NoTop
  /\ magasin_summary = <<>>
  /\ i_call = NoImport
  /\ result_key = NoAlias
  /\ filter_call = NoFilter
  /\ cached_call = TRUE
  /\ materials = NoMaterials
  /\ stock = NoStock
  /\ transport_missions = <<>>
  /\ documents = <<>>
  /\ l_call = NoLogisticsCall

\* a call of MaterialManager.load_data(file_path)
LoadData ==
  /\ pc = "manager"
  /\ \E f \in ManagerFiles, box \in Boxes :
       LET call == load_data(raw_data, transformed_data, t_cache, f, box)
       IN /\ file' = f
          /\ raw_data' = call.raw
          /\ transformed_data' = call.transformed
          /\ t_cache' = call.cache
          /\ m_call' = [op |-> "load_data", exc |-> call.exc,
                        steps |-> call.steps, called |-> TRUE]
          /\ m_loaded' = (m_loaded \/ call.exc = "")
  /\ UNCHANGED <<pc, df_wide, df_long, t_exc, result, a_exc, a_cache, i_exc, th,
                 top, magasin_summary, i_call, result_key, filter_call, cached_call, materials, stock, transport_missions, documents, l_call>>

\* a call of one of the methods of the manager that need loaded data
Query ==
  /\ pc = "manager"
  /\ \E op \in Queries, box \in Boxes :
       LET call == query(op, raw_data, transformed_data, a_cache, box)
       IN /\ m_call' = [op |-> op, exc |-> call.exc, steps |-> <<>>,
                        called |-> call.called]
          /\ a_cache' = call.cache
          /\ result' = IF op = "analyze_deficits" /\ call.exc = ""
                       THEN call.ret ELSE result
          /\ result_key' = IF op = "analyze_deficits" /\ call.exc = ""
                           THEN call.alias ELSE result_key
  /\ UNCHANGED <<pc, df_wide, df_long, t_exc, a_exc, t_cache, file, i_exc, th,
                 top, magasin_summary, raw_data, transformed_data, m_loaded, i_call, filter_call, cached_call, materials, stock, transport_missions, documents, l_call>>

\* MaterialManager.clear_cache()
ManagerClearCache ==
  /\ pc = "manager"
  /\ t_cache' = <<>>
  /\ a_cache' = <<>>
  /\ m_call' = [op |-> "clear_cache", exc |-> "", steps |-> <<>>,
                called |-> TRUE]
  /\ result_key' = NoAlias
  /\ UNCHANGED <<pc, df_wide, df_long, t_exc, result, a_exc, file, i_exc, th,
                 top, magasin_summary, raw_data, transformed_data, m_loaded, i_call, filter_call, cached_call, materials, stock, transport_missions, documents, l_call>>

NextManager == LoadData \/ Query \/ ManagerClearCache

\* the InventoryManager that build_default_manager returns; the script holds
\* no table
InitLogistics ==
  /\ pc = "wide"
  /\ df_wide = EmptyFrame
  /\ df_long = <<>>
  /\ t_exc = ""
  /\ result = NoResult
  /\ a_exc = ""
  /\ t_cache = <<>>
  /\ a_cache = <<>>
  /\ file = NoFile
  /\ i_exc = ""
  /\ th = <<>>
  /\ top = NoTop
  /\ magasin_summary = <<>>
  /\ raw_data = NoFrame
  /\ transformed_data = NoLong
  /\ m_call = NoCall
  /\ m_loaded = FALSE
  /\ i_call = NoImport
  /\ result_key = NoAlias
  /\ filter_call = NoFilter
  /\ cached_call = TRUE
  /\ materials =
       [n \in Nsns |->
          [nsn |-> n, condition |-> "serviceable",
           history |-> << [entry |-> "Enregistre", quantity |-> 0,
                           place |-> ""] >>]]
  /\ stock = [NoStock EXCEPT !["WH-01"][generator] = InitialStock]
  /\ transport_missions = <<>>
  /\ documents = <<>>
  /\ l_call = NoLogisticsCall

\* the quantities the calls name: a negative one, one the warehouse holds
\* and one it does not hold
CallQuantities == {-1, 4, 11}

MissionIds == {"M1", "M2"}

\* the documents issued before the caller stops
MaxDocuments == 3

\* the InventoryManager as one value
manager ==
  [materials |-> materials, stock |-> stock,
   transport_missions |-> transport_missions, documents |-> documents]

\* the caller makes the call op and the manager is left as the call left it
LogisticsCall(op, quantity, call) ==
  /\ materials' = call.m.materials
  /\ stock' = call.m.stock
  /\ transport_missions' = call.m.transport_missions
  /\ documents' = call.m.documents
  /\ l_call' = [op |-> op, quantity |-> quantity, exc |-> call.exc]
  /\ UNCHANGED <<pc, df_wide, df_long, t_exc, result, a_exc, t_cache, a_cache,
                 file, i_exc, th, top, magasin_summary, raw_data,
                 transformed_data, m_call, m_loaded, i_call, result_key,
                 filter_call, cached_call>>

ReceiveMaterial ==
  /\ Len(documents) < MaxDocuments
  /\ \E nsn \in Nsns, quantity \in CallQuantities, warehouse_code \in LocationCodes :
       LogisticsCall("receive_material", quantity,
                     receive_material(manager, nsn, quantity, warehouse_code))

PlanTransport ==
  /\ Len(documents) < MaxDocuments
  /\ \E mission_id \in MissionIds, nsn \in Nsns, quantity \in CallQuantities,
        origin_code \in LocationCodes, destination_code \in LocationCodes :
       LogisticsCall("plan_transport", quantity,
                     plan_transport(manager, mission_id, nsn, quantity,
                                    origin_code, destination_code))

CompleteTransport ==
  /\ Len(documents) < MaxDocuments
  /\ \E mission_id \in MissionIds :
       LogisticsCall("complete_transport", 0,
                     complete_transport(manager, mission_id))

AssignToStore ==
  /\ Len(documents) < MaxDocuments
  /\ \E nsn \in Nsns, store_code \in LocationCodes, quantity \in CallQuantities :
       LogisticsCall("assign_to_store", quantity,
                     assign_to_store(manager, nsn, store_code, quantity))

ScheduleDisposal ==
  /\ Len(documents) < MaxDocuments
  /\ \E nsn \in Nsns, disposal_code \in LocationCodes, quantity \in CallQuantities :
       LogisticsCall("schedule_disposal", quantity,
                     schedule_disposal(manager, nsn, disposal_code, quantity))

NextLogistics ==
  \/ ReceiveMaterial
  \/ PlanTransport
  \/ CompleteTransport
  \/ AssignToStore
  \/ ScheduleDisposal

NextTransformer == TransformToLong \/ NextTable \/ TransformerClearCache

\* the pipeline: reshape a wide table, then analyze the long table
Spec == Init /\ [][Next]_vars

\* one transformer, called any number of times
SpecTransformer == InitCalls /\ [][NextTransformer]_vars

\* one analyzer, called any number of times
SpecAnalyzer == InitLongCalls /\ [][NextAnalyzer]_vars

\* two callers inside transform_to_long, or inside analyze_deficits, on the
\* same table with the cache enabled
SpecThreads == InitThreads /\ [][NextThreads]_vars

\* one manager, any sequence of calls
SpecManager == InitManager /\ [][NextManager]_vars

\* one analyzer, called any number of times by a script that modifies the
\* results it gets
SpecAlias == InitAlias /\ [][NextAlias]_vars

\* the analyzer on a long table, or on the rows of one of its stores
SpecFilter == InitLong /\ [][NextFilter]_vars

\* one transformer and one analyzer, called any number of times with and
\* without their caches
SpecCaches == InitCaches /\ [][NextCaches]_vars

\* the importer alone, on any file
SpecImporter == InitFile /\ [][ImportCsv]_vars

\* the calls on the InventoryManager of build_default_manager
SpecLogistics == InitLogistics /\ [][NextLogistics]_vars

\* the analyzer alone, on any long table
SpecDeficit == InitLong /\ [][AnalyzeDeficits]_vars

\* the analyzer on any long table, then the largest deficits of its result
SpecTop == InitLong /\ [][NextTop]_vars

\* the analyzer on any long table, then the summary by store of its result
SpecSummary == InitSummary /\ [][NextSummary]_vars

(***************************************************************************)
(* Vocabulary of the properties.                                           *)
(***************************************************************************)
\* transform_to_long has returned a long table
Reshaped == pc \in {"long", "done"} /\ t_exc = ""

\* analyze_deficits has returned a result
Analyzed == pc = "done" /\ a_exc = ""

\* the decimal numeral of a natural number
RECURSIVE Decimal(_)
Decimal(k) ==
  LET last == CHOOSE c \in {"0", "1", "2", "3", "4", "5", "6", "7", "8", "9"} :
                Ord(c) - 48 = k % 10
  IN IF k < 10 THEN <<last>> ELSE Decimal(k \div 10) \o <<last>>

\* the cell holds the positive number q, as a number or as its numeral
HoldsPositive(cell, q) ==
  /\ q > 0
  /\ \/ cell = Num(q)
     \/ cell = Str(Decimal(q))

\* the store cells of the wide table
StoreCells == { p \in (1..Len(df_wide.rows)) \X (1..Len(df_wide.columns)) : p[2] >= 2 }
CellAt(p) == df_wide.rows[p[1]][p[2]]
KeyAt(p) == df_wide.rows[p[1]][1].s
ColumnAt(p) == df_wide.columns[p[2]]

\* the records of the input long table of one kind and one (store, item)
RecordsOf(kind, row) ==
  { i \in 1..Len(df_long) :
      /\ df_long[i].type_donnee = kind
      /\ df_long[i].magasin = row.magasin
      /\ df_long[i].nomenclature = row.nomenclature }

RowsOf(rec) ==
  { k \in 1..Len(result.data) :
      /\ result.data[k].magasin = rec.magasin
      /\ result.data[k].nomenclature = rec.nomenclature }

(***************************************************************************)
(* C1: every row of the deficit table has deficit = quantite_stock -       *)
(* quantite_exploitation, where each quantity is the quantity of a record  *)
(* of that kind for the row's (store, item), and 0 when the input has no   *)
(* such record.                                                            *)
(***************************************************************************)
C1_SignConvention ==
  Analyzed =>
    \A k \in 1..Len(result.data) :
      LET row == result.data[k]
          us == { df_long[i].quantite : i \in RecordsOf("U", row) }
          cs == { df_long[i].quantite : i \in RecordsOf("C", row) }
      IN /\ row.deficit = row.quantite_stock - row.quantite_exploitation
         /\ row.quantite_exploitation \in (IF us = {} THEN {0} ELSE us)
         /\ row.quantite_stock \in (IF cs = {} THEN {0} ELSE cs)

\* a shortfall row: exploitation 2, stock 1, deficit -1
C1_Witness ==
  /\ Analyzed
  /\ \E k \in 1..Len(result.data) :
       /\ result.data[k].quantite_exploitation = 2
       /\ result.data[k].quantite_stock = 1
       /\ result.data[k].deficit = 0 - 1

(***************************************************************************)
(* C2: a (store, item) has a row in the deficit table if and only if the   *)
(* input has a U or a C record for it, and a row whose (store, item) has   *)
(* no record of one kind has quantity 0 on that side.                      *)
(***************************************************************************)
C2_OuterJoinCoverage ==
  Analyzed =>
    /\ \A i \in 1..Len(df_long) :
         df_long[i].type_donnee \in {"U", "C"} => RowsOf(df_long[i]) # {}
    /\ \A k \in 1..Len(result.data) :
         LET row == result.data[k]
         IN /\ RecordsOf("U", row) \cup RecordsOf("C", row) # {}
            /\ RecordsOf("U", row) = {} => row.quantite_exploitation = 0
            /\ RecordsOf("C", row) = {} => row.quantite_stock = 0

\* one pair has only a stock record, another only an exploitation record,
\* and both have their row
C2_Witness ==
  /\ Analyzed
  /\ \E k1, k2 \in 1..Len(result.data) :
       /\ result.data[k1].quantite_exploitation = 0
       /\ result.data[k1].quantite_stock > 0
       /\ result.data[k2].quantite_stock = 0
       /\ result.data[k2].quantite_exploitation > 0

(***************************************************************************)
(* C3: no (store, item) appears more than once in the deficit table.       *)
(***************************************************************************)
C3_NoDuplicatePairs ==
  Analyzed =>
    \A k1, k2 \in 1..Len(result.data) :
      SameKey(result.data[k1], result.data[k2]) => k1 = k2

(***************************************************************************)
(* C4: every record of the long table has quantite > 0 and comes from a    *)
(* cell that holds that positive number; a null, empty, blank,             *)
(* non-numeric, zero or negative cell gives no record, and                 *)
(* transform_to_long raises only on an empty table.                        *)
(***************************************************************************)
C4_Positivity ==
  /\ pc = "failed" => empty(df_wide)
  /\ Reshaped =>
       \A k \in 1..Len(df_long) :
         /\ df_long[k].quantite > 0
         /\ \E p \in StoreCells :
              /\ KeyAt(p) = df_long[k].nomenclature
              /\ ColumnAt(p) = df_long[k].magasin_code
              /\ HoldsPositive(CellAt(p), df_long[k].quantite)

\* a table with a zero cell and a positive cell under -U/-C columns gives
\* exactly one record
C4_Witness ==
  /\ pc = "long"
  /\ Len(df_long) = 1
  /\ \E p, q \in StoreCells :
       /\ EndsWithKind(ColumnAt(p)) /\ CellAt(p) = Num(0)
       /\ EndsWithKind(ColumnAt(q)) /\ CellAt(q) = Num(3)

(***************************************************************************)
(* C5: each cell under a column whose name ends in -U or -C that holds a   *)
(* number greater than 0 yields exactly one long record (same item, that   *)
(* column, that quantity), and every long record comes from such a cell.   *)
(***************************************************************************)
C5_RoundTrip ==
  Reshaped =>
    /\ \A p \in StoreCells : \A q \in {1, 2, 3} :
         (EndsWithKind(ColumnAt(p)) /\ HoldsPositive(CellAt(p), q)) =>
           Cardinality({ k \in 1..Len(df_long) :
                           /\ df_long[k].nomenclature = KeyAt(p)
                           /\ df_long[k].magasin_code = ColumnAt(p)
                           /\ df_long[k].quantite = q })
           = Cardinality({ p2 \in StoreCells :
                             /\ KeyAt(p2) = KeyAt(p)
                             /\ ColumnAt(p2) = ColumnAt(p)
                             /\ HoldsPositive(CellAt(p2), q) })
    /\ \A k \in 1..Len(df_long) :
         \E p \in StoreCells :
           /\ EndsWithKind(ColumnAt(p))
           /\ KeyAt(p) = df_long[k].nomenclature
           /\ ColumnAt(p) = df_long[k].magasin_code
           /\ HoldsPositive(CellAt(p), df_long[k].quantite)

(***************************************************************************)
(* C6: for every long record, type_donnee is U or C and                    *)
(* magasin + "-" + type_donnee is magasin_code, the column name.           *)
(***************************************************************************)
C6_SuffixInvariant ==
  Reshaped =>
    \A k \in 1..Len(df_long) :
      /\ df_long[k].type_donnee \in {"U", "C"}
      /\ df_long[k].magasin \o <<"-", df_long[k].type_donnee>> = df_long[k].magasin_code

(***************************************************************************)
(* C7: a column whose name does not end with -U or -C contributes no       *)
(* record to the long table.                                               *)
(***************************************************************************)
C7_UnsuffixedColumnsDropped ==
  Reshaped =>
    \A k \in 1..Len(df_long) : EndsWithKind(df_long[k].magasin_code)

(***************************************************************************)
(* C8: analyze_deficits raises AnalysisError exactly when the long table   *)
(* has no rows; on a non-empty table without U or C rows it returns the    *)
(* empty deficit table and a summary of zero counts.                       *)
(***************************************************************************)
C8_ErrorOnlyOnEmpty ==
  pc = "done" =>
    /\ a_exc = "AnalysisError" <=> Len(df_long) = 0
    /\ a_exc \in {"", "AnalysisError"}
    /\ (/\ Len(df_long) > 0
        /\ \A i \in 1..Len(df_long) : df_long[i].type_donnee \notin {"U", "C"})
       => /\ a_exc = ""
          /\ result.data = <<>>
          /\ result.summary.total_deficits = 0
          /\ result.summary.magasins_concernes = 0

\* a table of rows of another kind was analyzed without error
C8_Witness ==
  /\ pc = "done"
  /\ Len(df_long) = 2
  /\ \A i \in 1..Len(df_long) : df_long[i].type_donnee = "X"
  /\ a_exc = ""
  /\ result = zero_result

(***************************************************************************)
(* C9: when transform_to_long was run on a non-empty wide table and no U   *)
(* or C data remains, analyze_deficits on its output does not raise and    *)
(* yields the empty deficit table with zero counts.                        *)
(***************************************************************************)
C9_ZeroResultNotAnError ==
  (/\ pc = "done"
   /\ ~empty(df_wide)
   /\ \A i \in 1..Len(df_long) : df_long[i].type_donnee \notin {"U", "C"})
  => /\ a_exc = ""
     /\ result.data = <<>>
     /\ result.summary.total_deficits = 0
     /\ result.summary.magasins_concernes = 0

(***************************************************************************)
(* C10: on a non-empty long table of one kind only, analyze_deficits does  *)
(* not raise and returns exactly one row per input (store, item): with     *)
(* only U records quantite_stock = 0 and deficit = -quantite_exploitation, *)
(* with only C records quantite_exploitation = 0 and deficit =             *)
(* quantite_stock.                                                         *)
(***************************************************************************)
OnlyKind(kind) ==
  /\ Len(df_long) > 0
  /\ \A i \in 1..Len(df_long) : df_long[i].type_donnee = kind

C10_SingleKind ==
  (pc = "done" /\ (OnlyKind("U") \/ OnlyKind("C"))) =>
    /\ a_exc = ""
    /\ \A i \in 1..Len(df_long) : Cardinality(RowsOf(df_long[i])) = 1
    /\ \A k \in 1..Len(result.data) :
         LET row == result.data[k]
         IN /\ RecordsOf("U", row) \cup RecordsOf("C", row) # {}
            /\ OnlyKind("U") =>
                 /\ row.quantite_stock = 0
                 /\ row.deficit = 0 - row.quantite_exploitation
                 /\ row.quantite_exploitation > 0
            /\ OnlyKind("C") =>
                 /\ row.quantite_exploitation = 0
                 /\ row.deficit = row.quantite_stock
                 /\ row.quantite_stock > 0

(***************************************************************************)
(* C11: transform_to_long raises DataTransformationError on an empty table,*)
(* and whatever fails while it processes a non-empty table leaves as a     *)
(* DataTransformationError: the caller sees no other exception type.       *)
(***************************************************************************)
C11_OnlyTransformationError ==
  /\ t_exc \in {"", "DataTransformationError"}
  /\ pc = "failed" => t_exc = "DataTransformationError"
  /\ (pc \in {"long", "failed"} /\ empty(df_wide)) => pc = "failed"

\* the call failed on a table that has rows and columns
C11_Witness ==
  /\ pc = "failed"
  /\ ~empty(df_wide)
  /\ str_accessor_raises(df_wide)
  /\ t_exc = "DataTransformationError"

(***************************************************************************)
(* C12: when the file that import_csv read has fewer than 2 columns, or no *)
(* column after the first whose name ends in -U or -C, the caller receives *)
(* DataValidationError and no other error kind.                            *)
(***************************************************************************)
\* import_csv got as far as reading the file
FileWasRead ==
  /\ pc \in {"wide", "rejected"}
  /\ file.exists
  /\ lower(file.suffix) = ".csv"
  /\ file.parses

C12_ValidationErrorReachesCaller ==
  (/\ FileWasRead
   /\ \/ Len(file.frame.columns) < 2
      \/ \A j \in 2..Len(file.frame.columns) : ~EndsWithKind(file.frame.columns[j]))
  => /\ pc = "rejected"
     /\ i_exc = "DataValidationError"

(***************************************************************************)
(* C13: in every summary analyze_deficits returns, the surplus count plus  *)
(* the shortfall count is total_deficits and is at most the number of rows *)
(* of the deficit table; a row whose deficit is 0 is in neither count.     *)
(* The summary of the zero-result reports no surplus or shortfall count:   *)
(* its total_deficits is 0 and its table has no row.                       *)
(***************************************************************************)
\* the rows of the returned table whose deficit satisfies the test
RowsWhere(Holds(_)) == { k \in 1..Len(result.data) : Holds(result.data[k].deficit) }
IsSurplus(d) == d > 0
IsShortfall(d) == d < 0
IsZero(d) == d = 0

ReportsCounts == "surplus_stock_count" \in DOMAIN result.summary

C13_SummaryConsistency ==
  Analyzed =>
    IF ReportsCounts
    THEN /\ result.summary.surplus_stock_count + result.summary.manque_stock_count
              = result.summary.total_deficits
         /\ result.summary.total_deficits <= Len(result.data)
         /\ result.summary.surplus_stock_count = Cardinality(RowsWhere(IsSurplus))
         /\ result.summary.manque_stock_count = Cardinality(RowsWhere(IsShortfall))
         /\ result.summary.total_deficits
              = Len(result.data) - Cardinality(RowsWhere(IsZero))
    ELSE /\ result.summary.total_deficits = 0
         /\ Len(result.data) = 0

\* a table whose only row has deficit 0: no count includes it
C13_Witness ==
  /\ Analyzed
  /\ ReportsCounts
  /\ Len(result.data) = 1
  /\ result.data[1].deficit = 0
  /\ result.summary.total_deficits = 0
  /\ result.summary.surplus_stock_count = 0
  /\ result.summary.manque_stock_count = 0

(***************************************************************************)
(* C14: over the returned deficit table, the surplus total is the sum of   *)
(* the positive deficits, the shortfall total is the absolute value of the *)
(* sum of the negative deficits, deficit_total is the sum over all rows    *)
(* (surplus total - shortfall total), and magasins_concernes is the number *)
(* of distinct stores with a row whose deficit is not 0.                   *)
(***************************************************************************)
RECURSIVE TotalOver(_)
TotalOver(rows) ==
  IF rows = {} THEN 0
  ELSE LET k == CHOOSE k \in rows : TRUE
       IN result.data[k].deficit + TotalOver(rows \ {k})

C14_SummaryTotals ==
  Analyzed =>
    /\ result.summary.magasins_concernes
         = Cardinality({ result.data[k].magasin :
                           k \in RowsWhere(IsSurplus) \cup RowsWhere(IsShortfall) })
    /\ ReportsCounts =>
         /\ result.summary.surplus_stock_total = TotalOver(RowsWhere(IsSurplus))
         /\ result.summary.manque_stock_total = 0 - TotalOver(RowsWhere(IsShortfall))
         /\ result.summary.manque_stock_total >= 0
         /\ result.summary.deficit_total = TotalOver(1..Len(result.data))
         /\ result.summary.deficit_total
              = result.summary.surplus_stock_total - result.summary.manque_stock_total

\* a surplus of 2 and a shortfall of 1 in one store
C14_Witness ==
  /\ Analyzed
  /\ ReportsCounts
  /\ result.summary.surplus_stock_total = 2
  /\ result.summary.manque_stock_total = 1
  /\ result.summary.deficit_total = 1
  /\ result.summary.magasins_concernes = 1

(***************************************************************************)
(* C15: the deficit table is in ascending (magasin, nomenclature) order,   *)
(* and a long table that holds the same records in another row order gives *)
(* the same deficit table.                                                 *)
(***************************************************************************)
\* what analyze_deficits returns for the table on a new analyzer
Uncached(df) == analyze_deficits(<<>>, df, FALSE, 0).ret

C15_SortedAndOrderFree ==
  Analyzed =>
    /\ \A k \in 1..(Len(result.data) - 1) :
         ~KeyLess(result.data[k + 1], result.data[k])
    /\ \A other \in Reorderings(df_long) : Uncached(other).data = result.data

(***************************************************************************)
(* C16: a call of transform_to_long leaves the wide table it was given as  *)
(* it was (columns, rows and cells), whether it returns or raises and      *)
(* whether it computes or answers from the cache.                          *)
(***************************************************************************)
C16_InputNotMutated ==
  [][(pc = "wide" /\ pc' \in {"long", "failed"}) => df_wide' = df_wide]_vars

\* a call computed a long table with records from its argument and stored it
C16_Witness ==
  /\ pc = "long"
  /\ t_exc = ""
  /\ df_long # <<>>
  /\ df_long = reshape(df_wide)
  /\ t_cache # <<>>

(***************************************************************************)
(* C17: after any sequence of transform_to_long calls (with or without the *)
(* cache) and clear_cache calls on one transformer, a call gives what the  *)
(* uncached reshape of its own argument gives; two wide tables with the    *)
(* same cells under different column names never get each other's result.  *)
(***************************************************************************)
\* what transform_to_long does with the table on a new transformer
UncachedReshape(df) == transform_to_long(<<>>, df, FALSE, 0)

C17_TransformCacheCorrect ==
  pc \in {"long", "failed"} =>
    /\ t_exc = UncachedReshape(df_wide).exc
    /\ t_exc = "" => df_long = UncachedReshape(df_wide).ret

(***************************************************************************)
(* C18: after any sequence of analyze_deficits calls on long tables with   *)
(* rows (with or without the cache) and clear_cache calls on one analyzer, *)
(* a call returns the deficit table and the summary that the uncached      *)
(* computation on its own argument returns.                                *)
(***************************************************************************)
C18_AnalyzeCacheCorrect ==
  (Analyzed /\ df_long # <<>>) =>
    /\ result.data = Uncached(df_long).data
    /\ result.summary = Uncached(df_long).summary

(***************************************************************************)
(* C19: when several callers run transform_to_long or analyze_deficits on  *)
(* the same table with the cache enabled, every entry the cache ever holds *)
(* is a completely computed result, and every caller that returns gets the *)
(* complete result.                                                        *)
(***************************************************************************)
\* the complete result of the call the callers make
Complete(fn) ==
  IF fn = "transform" THEN reshape(df_wide) ELSE Uncached(df_long)

C19_NoPartialEntry ==
  pc = "threads" =>
    /\ \A k \in DOMAIN t_cache : t_cache[k] = Complete("transform")
    /\ \A k \in DOMAIN a_cache : a_cache[k] = Complete("analyze")
    /\ \A t \in Threads : th[t].at = "done" => th[t].ret = Complete(th[t].fn)

\* one caller returned from the cache the result that the other computed
\* and stored
C19_Witness ==
  /\ pc = "threads"
  /\ \E t, u \in Threads :
       /\ th[t].at = "done" /\ th[t].via = "cache"
       /\ th[u].at = "done" /\ th[u].via = "computed" /\ th[u].stored
       /\ th[t].ret = th[u].ret
       /\ th[t].ret # <<>>

(***************************************************************************)
(* C20: get_top_deficits(result, n, by_abs_value) returns min(n, number of *)
(* rows) rows of the deficit table, in descending order of |deficit| (of   *)
(* deficit when by_abs_value is false); no row left out ranks strictly     *)
(* higher than a returned row, and of a returned and a left-out row of     *)
(* equal rank the left-out one does not come first in (magasin,            *)
(* nomenclature) order; the table inside the result is left as it was.     *)
(***************************************************************************)
\* the rank of a row in the last call of get_top_deficits
TopRank(r) == IF top.by_abs_value THEN Abs(r.deficit) ELSE r.deficit

\* the ways to find the returned rows in the table: one position of the
\* table for each returned row, no position twice
Selections(data, ret) ==
  { p \in [1..Len(ret) -> 1..Len(data)] :
      /\ \A i, j \in 1..Len(ret) : p[i] = p[j] => i = j
      /\ \A i \in 1..Len(ret) : data[p[i]] = ret[i] }

\* the positions of the table that p leaves out
LeftOut(data, p) == (1..Len(data)) \ { p[i] : i \in DOMAIN p }

TopOf(data) ==
  /\ top.exc = ""
  /\ Len(top.ret) = (IF top.n < Len(data) THEN top.n ELSE Len(data))
  /\ \A k \in 1..(Len(top.ret) - 1) :
       TopRank(top.ret[k]) >= TopRank(top.ret[k + 1])
  /\ \E p \in Selections(data, top.ret) :
       \A j \in LeftOut(data, p) : \A i \in 1..Len(top.ret) :
         /\ TopRank(data[j]) <= TopRank(top.ret[i])
         /\ TopRank(data[j]) = TopRank(top.ret[i]) => ~KeyLess(data[j], top.ret[i])
  /\ result.data = data

C20_TopDeficits == pc = "top" => TopOf(Uncached(df_long).data)

(***************************************************************************)
(* C21: get_magasin_summary returns exactly one row per store of the       *)
(* deficit table, with the count, the sum and the mean of the store's      *)
(* deficits, the sums of its exploitation and stock quantities and         *)
(* ratio_exp_stock = total_exploitation / (total_stock + 1); the rows are  *)
(* in descending order of deficit_total.                                   *)
(***************************************************************************)
\* the fractions p and q are the same number
SameNumber(p, q) == p[1] * q[2] = q[1] * p[2]

\* the fraction p is a multiple of 10^-decimals that is as near to the
\* fraction q as such a multiple can be
NearestTo(p, q, decimals) ==
  /\ p[2] = Pow10(decimals)
  /\ 2 * Abs(p[1] * q[2] - q[1] * p[2]) <= q[2]

\* the rows of the deficit table of a store
RowsOfStore(m) == SelectSeq(result.data, LAMBDA r : r.magasin = m)

\* everything the summary states except the two floats
SummaryRows ==
  /\ \A i \in DOMAIN result.data : \E k \in DOMAIN magasin_summary :
       magasin_summary[k].magasin = result.data[i].magasin
  /\ \A j, k \in DOMAIN magasin_summary :
       magasin_summary[j].magasin = magasin_summary[k].magasin => j = k
  /\ \A k \in DOMAIN magasin_summary :
       LET row == magasin_summary[k]
           rows == RowsOfStore(row.magasin)
       IN /\ rows # <<>>
          /\ row.nb_items = Len(rows)
          /\ row.deficit_total =
               TotalOver({ i \in DOMAIN result.data :
                             result.data[i].magasin = row.magasin })
          /\ row.total_exploitation =
               SumColumn(rows, "quantite_exploitation")
          /\ row.total_stock = SumColumn(rows, "quantite_stock")
  /\ \A k \in 1..(Len(magasin_summary) - 1) :
       magasin_summary[k].deficit_total >= magasin_summary[k + 1].deficit_total

\* the mean and the ratio of a row of the summary, as the claim has them
MeanOf(row) == << row.deficit_total, row.nb_items >>
RatioOf(row) == << row.total_exploitation, row.total_stock + 1 >>

C22_NoDataNoResult ==
  (pc = "manager" /\ ~m_loaded) =>
    /\ ~has_data(transformed_data)
    /\ m_call.op \in Queries =>
         m_call.exc = "MaterialManagerError" /\ ~m_call.called

\* a query after a load_data call that imported a table and failed to
\* reshape it
C22_Witness ==
  /\ pc = "manager"
  /\ ~m_loaded
  /\ ~raw_data.none
  /\ m_call.op \in Queries
  /\ m_call.exc = "MaterialManagerError"

(***************************************************************************)
(* C23: load_data reports every failure of its import step or of its       *)
(* transformation step to the caller as a MaterialManagerError, makes each *)
(* step at most once (no retry) and stops at the step that failed; it      *)
(* returns normally only when both steps returned.                         *)
(***************************************************************************)
\* the positions of the log of the last call that hold the step
StepsOf(step) == { k \in DOMAIN m_call.steps : m_call.steps[k].step = step }

C23_LoadFailuresReported ==
  (pc = "manager" /\ m_call.op = "load_data") =>
    /\ m_call.exc \in {"", "MaterialManagerError"}
    /\ Cardinality(StepsOf("import_csv")) = 1
    /\ Cardinality(StepsOf("transform_to_long")) <= 1
    /\ m_call.steps[1].step = "import_csv"
    /\ m_call.steps[1].exc = import_csv(file).exc
    /\ \A k \in DOMAIN m_call.steps :
         m_call.steps[k].exc # "" =>
           m_call.exc = "MaterialManagerError" /\ k = Len(m_call.steps)
    /\ m_call.exc = "" =>
         /\ Len(m_call.steps) = 2
         /\ \A k \in DOMAIN m_call.steps : m_call.steps[k].exc = ""

\* a load whose import returned and whose transformation raised
C23_Witness ==
  /\ pc = "manager"
  /\ m_call.op = "load_data"
  /\ Len(m_call.steps) = 2
  /\ m_call.steps[2].exc = "DataTransformationError"
  /\ m_call.exc = "MaterialManagerError"

(***************************************************************************)
(* C25: after any sequence of load_data calls the raw table and the long   *)
(* table of the manager belong to the same load (both absent, or the long  *)
(* table is the reshape of the raw table held), and a load_data call that  *)
(* raises leaves both as they were before the call.                        *)
(***************************************************************************)
SameLoad(raw, transformed) ==
  \/ raw.none /\ transformed.none
  \/ /\ ~raw.none
     /\ ~transformed.none
     /\ UncachedReshape(raw.df).exc = ""
     /\ transformed.df = UncachedReshape(raw.df).ret

C25_FieldsOfOneLoad ==
  [][(pc = "manager" /\ m_call'.op = "load_data") =>
       /\ SameLoad(raw_data', transformed_data')
       /\ m_call'.exc # "" =>
            raw_data' = raw_data /\ transformed_data' = transformed_data]_vars

(***************************************************************************)
(* C24: import_csv raises DataImportError, without a call of pd.read_csv,  *)
(* when the path does not exist or when its extension, lower-cased, is not *)
(* .csv; the existence check comes first, so a path that fails both is     *)
(* refused for not existing; a path that exists with the extension .csv in *)
(* any case is read.                                                       *)
(***************************************************************************)
ImportCalled == pc \in {"wide", "rejected"}

C24_PathChecks ==
  ImportCalled =>
    /\ (~file.exists \/ file.suffix \notin {".csv", ".CSV"}) =>
         /\ pc = "rejected"
         /\ i_exc = "DataImportError"
         /\ i_call.reads = 0
    /\ ~file.exists => i_call.refused = "exists"
    /\ (file.exists /\ file.suffix \in {".csv", ".CSV"}) => i_call.reads >= 1

\* a path that does not exist and does not end in .csv either
C24_Witness ==
  /\ ImportCalled
  /\ ~file.exists
  /\ file.suffix = ".txt"
  /\ i_exc = "DataImportError"

(***************************************************************************)
(* C26: a result that analyze_deficits returns is isolated from the        *)
(* results of other calls: whatever the caller did to the tables and       *)
(* summaries of the results it got before, a call returns the deficit      *)
(* table and the summary of its input.                                     *)
(***************************************************************************)
C26_ResultsIsolated ==
  [][(pc = "long" /\ pc' = "done" /\ a_exc' = "") =>
       /\ result'.data = Uncached(df_long).data
       /\ result'.summary = Uncached(df_long).summary]_vars

(***************************************************************************)
(* C27: for a long table L without duplicate (store, item, kind) triples   *)
(* and a store m that occurs in L, analyze_deficits on                     *)
(* filter_by_magasin(L, m) returns, as its deficit table, exactly the rows *)
(* of the deficit table of L whose magasin is m, quantities and deficits   *)
(* included.                                                               *)
(***************************************************************************)
NoDuplicateTriples(df) ==
  \A i, j \in DOMAIN df :
    (/\ df[i].magasin = df[j].magasin
     /\ df[i].nomenclature = df[j].nomenclature
     /\ df[i].type_donnee = df[j].type_donnee) => i = j

\* the analysis ran on a filtered table
AnalyzedFiltered == pc = "done" /\ filter_call.made

C27_FilterCommutes ==
  (AnalyzedFiltered /\ NoDuplicateTriples(filter_call.df_long)) =>
    /\ a_exc = ""
    /\ result.data =
         SelectSeq(Uncached(filter_call.df_long).data,
                   LAMBDA r : r.magasin = filter_call.magasin)

\* a table of two stores, filtered to one of them
C27_Witness ==
  /\ AnalyzedFiltered
  /\ NoDuplicateTriples(filter_call.df_long)
  /\ result.data # <<>>
  /\ Len(Uncached(filter_call.df_long).data) > Len(result.data)

(***************************************************************************)
(* C28: with use_cache=False, transform_to_long and analyze_deficits leave *)
(* the cache as it was and return what the computation on the argument     *)
(* alone returns; a call that raises, and an analyze_deficits call that    *)
(* returns the zero-result, add no entry; clear_cache leaves the cache     *)
(* empty, and a call on an empty cache recomputes.                         *)
(***************************************************************************)
TransformStep == pc = "wide" /\ pc' \in {"long", "failed"}
AnalyzeStep == pc = "long" /\ pc' = "done"

\* the outcome of the call of the step is the outcome of the computation
\* on its argument
TransformFromArgument ==
  /\ t_exc' = UncachedReshape(df_wide).exc
  /\ t_exc' = "" => df_long' = UncachedReshape(df_wide).ret

AnalyzeFromArgument ==
  /\ a_exc' = analyze_deficits(<<>>, df_long, FALSE, 0).exc
  /\ a_exc' = "" => result' = Uncached(df_long)

C28_CacheFrame ==
  [][/\ (TransformStep /\ ~cached_call') =>
          t_cache' = t_cache /\ a_cache' = a_cache /\ TransformFromArgument
     /\ (AnalyzeStep /\ ~cached_call') =>
          t_cache' = t_cache /\ a_cache' = a_cache /\ AnalyzeFromArgument
     /\ (TransformStep /\ t_exc' # "") => t_cache' = t_cache
     /\ (AnalyzeStep /\ (a_exc' # "" \/ result' = zero_result)) =>
          a_cache' = a_cache
     /\ (pc' = pc /\ t_cache' # t_cache) => t_cache' = <<>>
     /\ (pc' = pc /\ a_cache' # a_cache) => a_cache' = <<>>
     /\ (TransformStep /\ t_cache = <<>>) => TransformFromArgument
     /\ (AnalyzeStep /\ a_cache = <<>>) => AnalyzeFromArgument]_vars

\* a call without the cache returned a result while the cache held an entry
\* for its argument, and left the entry alone
C28_Witness ==
  /\ pc = "done"
  /\ a_exc = ""
  /\ ~cached_call
  /\ result_key = NoAlias
  /\ result.data # <<>>
  /\ \E k \in DOMAIN a_cache : a_cache[k] = result

(***************************************************************************)
(* C29: transport conserves material: over plan_transport and              *)
(* complete_transport calls the total stock over all locations plus the    *)
(* quantities of the missions still in transit never changes, also when a  *)
(* mission is completed a second time or planned under an identifier       *)
(* already in use.                                                         *)
(***************************************************************************)
RECURSIVE SumLevels(_, _)
SumLevels(stk, keys) ==
  IF keys = {} THEN 0
  ELSE LET k == CHOOSE k \in keys : TRUE
       IN stk[k[1]][k[2]] + SumLevels(stk, keys \ {k})

RECURSIVE SumInTransit(_, _)
SumInTransit(missions, ids) ==
  IF ids = {} THEN 0
  ELSE LET id == CHOOSE id \in ids : TRUE
       IN (IF missions[id].status = "en transit" THEN missions[id].quantity
           ELSE 0) + SumInTransit(missions, ids \ {id})

\* the material in stock and on the way
Material(stk, missions) ==
  SumLevels(stk, LocationCodes \X Nsns) + SumInTransit(missions, DOMAIN missions)

C29_TransportConserves ==
  [][l_call'.op \in {"plan_transport", "complete_transport"}
       => Material(stock', transport_missions')
            = Material(stock, transport_missions)]_vars

(***************************************************************************)
(* C30: no stock level is ever negative, whatever integer quantities the   *)
(* calls of receive_material, plan_transport, complete_transport,          *)
(* assign_to_store and schedule_disposal name, and a call rejected with    *)
(* ValueError changes no stock, mission or document.                       *)
(***************************************************************************)
NoNegativeStock ==
  \A c \in LocationCodes, n \in Nsns : stock[c][n] >= 0

C30_NoNegativeStock ==
  [][/\ NoNegativeStock'
     /\ l_call'.exc = "ValueError"
          => UNCHANGED <<stock, transport_missions, documents>>]_vars

====
